---- MODULE Spec2Model ----
(***************************************************************************)
(* celvet: the two schema linters of the package, CheckMaxLimits           *)
(* (limits.go) and CheckExprCost (cost.go), and the command that runs them *)
(* (cmd/celvet/main.go), over structural schema trees.                     *)
(*                                                                         *)
(* Go pointers are modelled as sequences of length at most one: <<>> is    *)
(* the nil pointer, <<v>> points to v.  uint64 arithmetic is modelled with *)
(* a word of WordBits bits instead of 64, with the same wrap-around.       *)
(***************************************************************************)
EXTENDS Integers, Sequences, FiniteSets, Bags, TLC

\* ------------------------------------------------------------------------
\* Bounds and scaled program constants
\* ------------------------------------------------------------------------

\* width of the unsigned word (64 in the program)
WordBits == 4

\* greatest nesting depth (number of edges) of the generated schema trees
MaxDepth == 2

\* greatest number of ancestors in the generated chains of arrays and maps
MaxChain == 3

\* math.MaxUint
MaxUint == 2^WordBits - 1

\* math.MaxInt64, the greatest value an int64 bound field can hold
MaxInt64 == 2^(WordBits - 1) - 1

\* validation.StaticEstimatedCostLimit, scaled to the word
StaticEstimatedCostLimit == 6

\* ------------------------------------------------------------------------
\* Pointers
\* ------------------------------------------------------------------------

nil == <<>>

Ptr(v) == <<v>>

Deref(p) == p[1]

\* var unbounded *uint64
unbounded == nil

uint64ptr(i) == Ptr(i)

\* ------------------------------------------------------------------------
\* Overflow-guarded arithmetic (cost.go)
\* ------------------------------------------------------------------------

\* the uint64 product, which wraps around
WrapMul(x, y) == (x * y) % (MaxUint + 1)

\* multiplyWithOverflowGuard comparing with <= for <
multiplyGuardOffByOne(baseCost, cardinality) ==
    IF baseCost = 0
    THEN 0
    ELSE IF (MaxUint \div baseCost) <= cardinality
         THEN MaxUint
         ELSE WrapMul(baseCost, cardinality)

\* multiplyWithOverflowGuard without the guard
multiplyWrapping(baseCost, cardinality) == WrapMul(baseCost, cardinality)

\* multiplyWithOverflowGuard answering 0 for a product that does not fit
multiplyOverflowToZero(baseCost, cardinality) ==
    IF baseCost = 0
    THEN 0
    ELSE IF (MaxUint \div baseCost) < cardinality
         THEN 0
         ELSE WrapMul(baseCost, cardinality)

multiplyWithOverflowGuard(baseCost, cardinality) ==
    IF baseCost = 0
    THEN 0
    ELSE IF (MaxUint \div baseCost) < cardinality
         THEN MaxUint
         ELSE WrapMul(baseCost, cardinality)

\* zeroIfNegative letting a negative value through
zeroIfNegativeUnclamped(v) == v

zeroIfNegative(v) == IF v < 0 THEN 0 ELSE v

\* ------------------------------------------------------------------------
\* Structural schema nodes (structuralschema.Structural)
\* ------------------------------------------------------------------------

\* *ValueValidation with the three bound fields the linters read
ValueValidation(maxItems, maxLength, maxProperties) ==
    Ptr([MaxItems |-> maxItems, MaxLength |-> maxLength, MaxProperties |-> maxProperties])

\* *StructuralOrBool
StructuralOrBool(structural, bool) == Ptr([Structural |-> structural, Bool |-> bool])

\* comp is what schemacel.Compile answers for the node: its error and, per
\* rule of Extensions.XValidations, the CompilationResult
Structural(type, vv, items, properties, additionalProperties, comp) ==
    [Type |-> type,
     ValueValidation |-> vv,
     Items |-> items,
     Properties |-> properties,
     AdditionalProperties |-> additionalProperties,
     XValidations |-> comp.results,
     CompileErr |-> comp.err]

\* schemacel.CompilationResult
CompilationResult(error, maxCost, maxCardinality) ==
    [Error |-> error, MaxCost |-> maxCost, MaxCardinality |-> maxCardinality]

\* an error value of the compiler with the given message; err is the error
\* it wraps, nil for none
NewError(msg) == Ptr([msg |-> msg, err |-> nil])

\* fmt.Errorf("%w", err): a new error with the message of err that wraps err
Errorf(err) == Ptr([msg |-> Deref(err).msg, err |-> err])

\* ------------------------------------------------------------------------
\* The schema trees the linters are run on
\* ------------------------------------------------------------------------

Levels == 0..(MaxDepth + 1)

\* a node without validation rules: Compile answers (nil, nil)
NoRules == [err |-> nil, results |-> <<>>]

\* the answers of the compiler for the rule lists used in the trees
RuleSets ==
    { << CompilationResult(nil, 3, 5) >>,
      << CompilationResult(NewError("syntax error"), 0, 0), CompilationResult(nil, 2, MaxUint) >>,
      << CompilationResult(nil, MaxUint, 0), CompilationResult(nil, 3, 5) >> }

\* every node carries the rules rs
PlanUniform(rs) == [l \in Levels |-> [err |-> nil, results |-> rs]]

\* only the nodes of level k carry the rules rs
PlanOnly(k, rs) == [l \in Levels |-> IF l = k THEN [err |-> nil, results |-> rs] ELSE NoRules]

\* every node carries the rules rs, and Compile fails for the nodes of level k
PlanErrAt(k, rs) ==
    [l \in Levels |-> [err |-> IF l = k THEN NewError("compile error") ELSE nil, results |-> rs]]

CostPlans ==
    {PlanUniform(rs) : rs \in RuleSets}
    \cup {PlanOnly(k, << CompilationResult(nil, 3, 5) >>) : k \in {MaxDepth}}
    \cup {PlanErrAt(k, << CompilationResult(nil, 3, 5) >>) : k \in {0, 1}}

NoPlan == [l \in Levels |-> NoRules]

\* the ValueValidation pointers with the given choices for one bound field
WithMaxItems(ms) == {ValueValidation(m, nil, nil) : m \in ms}

WithMaxLength(ms) == {ValueValidation(nil, m, nil) : m \in ms}

WithMaxProperties(ms) == {ValueValidation(nil, nil, m) : m \in ms}

\* families of trees: which bound fields, leaf kinds and degenerate nodes occur
LimitFamily ==
    [arrayVV |-> {nil} \cup WithMaxItems({nil, Ptr(2)}),
     mapVV |-> {nil} \cup WithMaxProperties({nil, Ptr(2)}),
     mixedVV |-> {nil} \cup WithMaxProperties({Ptr(2)}),
     stringVV |-> {nil} \cup WithMaxLength({nil, Ptr(2)}),
     leafTypes |-> {"integer", "number", "boolean", "null"},
     nilItemsVV |-> {nil} \cup WithMaxItems({Ptr(2)}),
     boolMapVV |-> {nil} \cup WithMaxProperties({Ptr(2)})]

CostFamily ==
    [arrayVV |-> {nil} \cup WithMaxItems({Ptr(0), Ptr(MaxInt64)}),
     mapVV |-> {nil} \cup WithMaxProperties({Ptr(-1), Ptr(MaxInt64)}),
     mixedVV |-> WithMaxProperties({Ptr(2)}),
     stringVV |-> {nil},
     leafTypes |-> {"integer"},
     nilItemsVV |-> {},
     boolMapVV |-> {nil}]

RECURSIVE Schemas(_, _, _, _)
Schemas(depth, lvl, plan, fam) ==
    LET comp == plan[lvl]
        leafB == Structural("string", nil, nil, <<>>, nil, plan[lvl + 1])
        Terminals ==
            {Structural("string", vv, nil, <<>>, nil, comp) : vv \in fam.stringVV}
            \cup {Structural(t, nil, nil, <<>>, nil, comp) : t \in fam.leafTypes}
            \cup {Structural("array", vv, nil, <<>>, nil, comp) : vv \in fam.nilItemsVV}
            \cup {Structural("object", vv, nil, <<>>, StructuralOrBool(nil, b), comp) :
                     vv \in fam.boolMapVV, b \in BOOLEAN}
        Kids == Schemas(depth - 1, lvl + 1, plan, fam)
        Arrays == {Structural("array", vv, Ptr(c), <<>>, nil, comp) :
                      vv \in fam.arrayVV, c \in Kids}
        Maps == {Structural("object", vv, nil, <<>>, StructuralOrBool(Ptr(c), TRUE), comp) :
                    vv \in fam.mapVV, c \in Kids}
        Records == {Structural("object", nil, nil, ("array" :> c), nil, comp) : c \in Kids}
                   \cup {Structural("object", nil, nil, ("array" :> c) @@ ("other" :> leafB), nil, comp) :
                            c \in Kids}
        Mixed == {Structural("object", vv, nil, ("other" :> leafB),
                             StructuralOrBool(Ptr(c), TRUE), comp) :
                     vv \in fam.mixedVV, c \in Kids}
    IN  IF depth = 0
        THEN Terminals
        ELSE Terminals \cup Arrays \cup Maps \cup Records \cup Mixed

\* the trees with the shapes of a family and the rules of a plan
SchemasOf(input) == Schemas(MaxDepth, 0, input.plan, input.fam)

\* the families and plans the linters are run on
SchemaInputs ==
    {[plan |-> NoPlan, fam |-> LimitFamily]}
    \cup {[plan |-> plan, fam |-> CostFamily] : plan \in CostPlans}

\* ------------------------------------------------------------------------
\* Field paths (field.Path): the sequence of segments from the root
\* ------------------------------------------------------------------------

NameSeg(name) == [kind |-> "name", name |-> name, index |-> 0]

KeySeg(key) == [kind |-> "key", name |-> key, index |-> 0]

IndexSeg(i) == [kind |-> "index", name |-> "", index |-> i]

\* field.NewPath(name, moreNames...)
NewPath(names) == [i \in 1..Len(names) |-> NameSeg(names[i])]

\* (*Path).Child(name)
Child(path, name) == Append(path, NameSeg(name))

\* (*Path).Key(key)
Key(path, key) == Append(path, KeySeg(key))

\* (*Path).Index(index)
Index(path, i) == Append(path, IndexSeg(i))

\* the orders in which a range over a Go map with key set S may yield the keys
RangeOrders(S) ==
    {o \in [1..Cardinality(S) -> S] : \A i, j \in 1..Cardinality(S) : o[i] = o[j] => i = j}

RECURSIVE Flatten(_)
Flatten(seqs) == IF seqs = <<>> THEN <<>> ELSE Head(seqs) \o Flatten(Tail(seqs))

\* ------------------------------------------------------------------------
\* CheckMaxLimits (limits.go)
\* ------------------------------------------------------------------------

SchemaTypeList == "list"

SchemaTypeMap == "map"

SchemaTypeString == "string"

LimitError(path, type) == [Path |-> path, Type |-> type]

\* a pending call checkMaxLimits(schema, path)
LimitCall(schema, path) == [schema |-> schema, path |-> path]

\* limitOwnErrors without the test of MaxItems
limitOwnErrorsIgnoringMaxItems(s, path) ==
    CASE s.Type = "array" -> << LimitError(path, SchemaTypeList) >>
      [] s.Type = "string" ->
            IF s.ValueValidation = nil \/ Deref(s.ValueValidation).MaxLength = nil
            THEN << LimitError(path, SchemaTypeString) >>
            ELSE <<>>
      [] OTHER -> <<>>

\* the findings checkMaxLimits appends for the node itself
limitOwnErrors(s, path) ==
    CASE s.Type = "array" ->
            IF s.ValueValidation = nil
            THEN << LimitError(path, SchemaTypeList) >>
            ELSE IF Deref(s.ValueValidation).MaxItems = nil
                 THEN << LimitError(path, SchemaTypeList) >>
                 ELSE <<>>
      [] s.Type = "string" ->
            IF s.ValueValidation = nil
            THEN << LimitError(path, SchemaTypeString) >>
            ELSE IF Deref(s.ValueValidation).MaxLength = nil
                 THEN << LimitError(path, SchemaTypeString) >>
                 ELSE <<>>
      [] s.Type = "object" ->
            IF s.AdditionalProperties # nil /\ Deref(s.AdditionalProperties).Structural # nil
            THEN IF s.ValueValidation = nil
                 THEN << LimitError(path, SchemaTypeMap) >>
                 ELSE IF Deref(s.ValueValidation).MaxProperties = nil
                      THEN << LimitError(path, SchemaTypeMap) >>
                      ELSE <<>>
            ELSE <<>>
      [] OTHER -> <<>>

\* limitCalls visiting the items of a node of any other kind
limitCallsIntoItemsOfAnyKind(s, path, order) ==
    CASE s.Type = "array" -> << LimitCall(s.Items, Child(path, "<items>")) >>
      [] s.Type = "object" ->
            (IF s.AdditionalProperties # nil /\ Deref(s.AdditionalProperties).Structural # nil
             THEN << LimitCall(Deref(s.AdditionalProperties).Structural, path) >>
             ELSE <<>>)
            \o [i \in 1..Len(order) |->
                   LimitCall(Ptr(s.Properties[order[i]]), Child(path, order[i]))]
      [] OTHER -> IF s.Items # nil
                  THEN << LimitCall(s.Items, Child(path, "<items>")) >>
                  ELSE <<>>

\* limitCalls giving the value schema of a map a path segment of its own
limitCallsWithValueSegment(s, path, order) ==
    CASE s.Type = "array" -> << LimitCall(s.Items, Child(path, "<items>")) >>
      [] s.Type = "object" ->
            (IF s.AdditionalProperties # nil /\ Deref(s.AdditionalProperties).Structural # nil
             THEN << LimitCall(Deref(s.AdditionalProperties).Structural,
                               Child(path, "<values>")) >>
             ELSE <<>>)
            \o [i \in 1..Len(order) |->
                   LimitCall(Ptr(s.Properties[order[i]]), Child(path, order[i]))]
      [] OTHER -> <<>>

\* the recursive calls checkMaxLimits makes for the node, in call order;
\* order is the order in which the range over Properties yields the names
limitCalls(s, path, order) ==
    CASE s.Type = "array" -> << LimitCall(s.Items, Child(path, "<items>")) >>
      [] s.Type = "object" ->
            (IF s.AdditionalProperties # nil /\ Deref(s.AdditionalProperties).Structural # nil
             THEN << LimitCall(Deref(s.AdditionalProperties).Structural, path) >>
             ELSE <<>>)
            \o [i \in 1..Len(order) |->
                   LimitCall(Ptr(s.Properties[order[i]]), Child(path, order[i]))]
      [] OTHER -> <<>>

\* ------------------------------------------------------------------------
\* CheckExprCost (cost.go)
\* ------------------------------------------------------------------------

\* costInfo{MaxCardinality}
costInfo(maxCardinality) == [MaxCardinality |-> maxCardinality]

\* rootCostInfo with the zero value of costInfo
rootCostInfoUnbounded == costInfo(unbounded)

rootCostInfo == costInfo(uint64ptr(1))

CostError(path, cost) == [Path |-> path, Cost |-> cost]

\* schemacel.Compile(schema, false, schemacel.PerCallLimit)
Compile(s) ==
    [results |-> IF s.CompileErr # nil THEN <<>> ELSE s.XValidations, err |-> s.CompileErr]

\* extractMaxElements answering unbounded for the nodes that are neither
\* object nor array
extractMaxElementsDefaultUnbounded(s) ==
    CASE s.Type = "object" ->
            IF s.AdditionalProperties # nil
            THEN IF s.ValueValidation # nil /\ Deref(s.ValueValidation).MaxProperties # nil
                 THEN Ptr(zeroIfNegative(Deref(Deref(s.ValueValidation).MaxProperties)))
                 ELSE unbounded
            ELSE uint64ptr(1)
      [] s.Type = "array" ->
            IF s.ValueValidation # nil /\ Deref(s.ValueValidation).MaxItems # nil
            THEN Ptr(zeroIfNegative(Deref(Deref(s.ValueValidation).MaxItems)))
            ELSE unbounded
      [] OTHER -> unbounded

extractMaxElements(s) ==
    CASE s.Type = "object" ->
            IF s.AdditionalProperties # nil
            THEN IF s.ValueValidation # nil /\ Deref(s.ValueValidation).MaxProperties # nil
                 THEN Ptr(zeroIfNegative(Deref(Deref(s.ValueValidation).MaxProperties)))
                 ELSE unbounded
            ELSE uint64ptr(1)
      [] s.Type = "array" ->
            IF s.ValueValidation # nil /\ Deref(s.ValueValidation).MaxItems # nil
            THEN Ptr(zeroIfNegative(Deref(Deref(s.ValueValidation).MaxItems)))
            ELSE unbounded
      [] OTHER -> uint64ptr(1)

\* MultiplyByElementCost that hands down 0 whenever the incoming cardinality
\* is 0
MultiplyByElementCostZeroFirst(c, schema) ==
    IF schema = nil
    THEN [MaxCardinality |-> unbounded]
    ELSE IF c.MaxCardinality = unbounded
         THEN [MaxCardinality |-> unbounded]
         ELSE IF Deref(c.MaxCardinality) = 0
              THEN [MaxCardinality |-> uint64ptr(0)]
              ELSE LET maxElements == extractMaxElements(Deref(schema))
                   IN  IF maxElements = unbounded
                       THEN [MaxCardinality |-> unbounded]
                       ELSE [MaxCardinality |-> uint64ptr(multiplyWithOverflowGuard(
                                Deref(c.MaxCardinality), Deref(maxElements)))]

\* MultiplyByElementCost giving back the incoming cardinality for a nil
\* schema
MultiplyByElementCostNilKeeps(c, schema) ==
    IF schema = nil
    THEN costInfo(c.MaxCardinality)
    ELSE IF c.MaxCardinality = unbounded
         THEN costInfo(unbounded)
         ELSE LET maxElements == extractMaxElements(Deref(schema))
              IN  IF maxElements = unbounded
                  THEN costInfo(unbounded)
                  ELSE costInfo(uint64ptr(multiplyWithOverflowGuard(
                           Deref(c.MaxCardinality), Deref(maxElements))))

\* (c *costInfo) MultiplyByElementCost(schema); schema is a pointer
MultiplyByElementCost(c, schema) ==
    IF schema = nil
    THEN costInfo(unbounded)
    ELSE IF c.MaxCardinality = unbounded
         THEN costInfo(unbounded)
         ELSE LET maxElements == extractMaxElements(Deref(schema))
              IN  IF maxElements = unbounded
                  THEN costInfo(unbounded)
                  ELSE costInfo(uint64ptr(multiplyWithOverflowGuard(
                           Deref(c.MaxCardinality), Deref(maxElements))))

\* getExpressionCost that always takes the cardinality of the compiler
getExpressionCostIntrinsic(cr, cardinalityCost) ==
    multiplyWithOverflowGuard(cr.MaxCost, cr.MaxCardinality)

getExpressionCost(cr, cardinalityCost) ==
    IF cardinalityCost.MaxCardinality # unbounded
    THEN multiplyWithOverflowGuard(cr.MaxCost, Deref(cardinalityCost.MaxCardinality))
    ELSE multiplyWithOverflowGuard(cr.MaxCost, cr.MaxCardinality)

\* a call of checkExprCost that has run, with the number of compilation
\* results its loop went through
CostVisit(call, evaluated) ==
    [schema |-> call.schema, path |-> call.path, evaluated |-> evaluated]

\* a pending call checkExprCost(schema, path, nodeCostInfo)
CostCall(schema, path, nodeCostInfo) ==
    [schema |-> schema, path |-> path, nodeCostInfo |-> nodeCostInfo]

\* the values exprCost takes in the loop over the compilation results
exprCostsOf(results, nodeCostInfo) ==
    [i \in 1..Len(results) |-> getExpressionCost(results[i], nodeCostInfo)]

\* exceedsLimit with >= for >
meetsLimit(exprCost) == exprCost >= StaticEstimatedCostLimit

\* whether the loop appends a CostError for a rule of cost exprCost
exceedsLimit(exprCost) == exprCost > StaticEstimatedCostLimit

\* the path of the CostError of the rule at position index (from 0)
rulePath(path, index) == Child(Index(Child(path, "x-kubernetes-validations"), index), "rule")

\* the CostErrors the loop over the compilation results appends
costOwnErrors(results, path, nodeCostInfo) ==
    Flatten([i \in 1..Len(results) |->
        LET exprCost == getExpressionCost(results[i], nodeCostInfo)
        IN  IF exceedsLimit(exprCost)
            THEN << CostError(rulePath(path, i - 1), exprCost) >>
            ELSE <<>>])

\* the compile errors the loop over the compilation results appends
compileOwnErrors(results) ==
    Flatten([i \in 1..Len(results) |->
        IF results[i].Error # nil THEN << Errorf(results[i].Error) >> ELSE <<>>])

\* costCalls addressing the value schema of a map by the path of the map
costCallsAtMapPath(s, path, nodeCostInfo, order) ==
    CASE s.Type = "array" ->
            << CostCall(s.Items, Child(path, "items"),
                        MultiplyByElementCost(nodeCostInfo, Ptr(s))) >>
      [] s.Type = "object" ->
            [i \in 1..Len(order) |->
                CostCall(Ptr(s.Properties[order[i]]),
                         Key(Child(path, "properties"), order[i]),
                         MultiplyByElementCost(nodeCostInfo, Ptr(s)))]
            \o (IF s.AdditionalProperties # nil /\ Deref(s.AdditionalProperties).Structural # nil
                THEN << CostCall(Deref(s.AdditionalProperties).Structural, path,
                                 MultiplyByElementCost(nodeCostInfo, Ptr(s))) >>
                ELSE <<>>)
      [] OTHER -> <<>>

\* costCalls handing the properties of an object the cardinality of the
\* object itself, with the factor 1
costCallsPropertiesFactorOne(s, path, nodeCostInfo, order) ==
    CASE s.Type = "array" ->
            << CostCall(s.Items, Child(path, "items"),
                        MultiplyByElementCost(nodeCostInfo, Ptr(s))) >>
      [] s.Type = "object" ->
            [i \in 1..Len(order) |->
                CostCall(Ptr(s.Properties[order[i]]),
                         Key(Child(path, "properties"), order[i]),
                         nodeCostInfo)]
            \o (IF s.AdditionalProperties # nil /\ Deref(s.AdditionalProperties).Structural # nil
                THEN << CostCall(Deref(s.AdditionalProperties).Structural,
                                 Child(path, "additionalProperties"),
                                 MultiplyByElementCost(nodeCostInfo, Ptr(s))) >>
                ELSE <<>>)
      [] OTHER -> <<>>

\* costCalls visiting the value schema of additionalProperties before the
\* properties
costCallsValuesFirst(s, path, nodeCostInfo, order) ==
    CASE s.Type = "array" ->
            << CostCall(s.Items, Child(path, "items"),
                        MultiplyByElementCost(nodeCostInfo, Ptr(s))) >>
      [] s.Type = "object" ->
            (IF s.AdditionalProperties # nil /\ Deref(s.AdditionalProperties).Structural # nil
             THEN << CostCall(Deref(s.AdditionalProperties).Structural,
                              Child(path, "additionalProperties"),
                              MultiplyByElementCost(nodeCostInfo, Ptr(s))) >>
             ELSE <<>>)
            \o [i \in 1..Len(order) |->
                   CostCall(Ptr(s.Properties[order[i]]),
                            Key(Child(path, "properties"), order[i]),
                            MultiplyByElementCost(nodeCostInfo, Ptr(s)))]
      [] OTHER -> <<>>

\* the recursive calls checkExprCost makes for the node, in call order
costCalls(s, path, nodeCostInfo, order) ==
    CASE s.Type = "array" ->
            << CostCall(s.Items, Child(path, "items"),
                        MultiplyByElementCost(nodeCostInfo, Ptr(s))) >>
      [] s.Type = "object" ->
            [i \in 1..Len(order) |->
                CostCall(Ptr(s.Properties[order[i]]),
                         Key(Child(path, "properties"), order[i]),
                         MultiplyByElementCost(nodeCostInfo, Ptr(s)))]
            \o (IF s.AdditionalProperties # nil /\ Deref(s.AdditionalProperties).Structural # nil
                THEN << CostCall(Deref(s.AdditionalProperties).Structural,
                                 Child(path, "additionalProperties"),
                                 MultiplyByElementCost(nodeCostInfo, Ptr(s))) >>
                ELSE <<>>)
      [] OTHER -> <<>>

\* chains of arrays and maps that all declare their bound, over a string leaf
RECURSIVE ChainSchemas(_, _)
ChainSchemas(n, comp) ==
    IF n = 0
    THEN {Structural("string", nil, nil, <<>>, nil, comp)}
    ELSE LET Kids == ChainSchemas(n - 1, comp)
         IN  {Structural("array", vv, Ptr(c), <<>>, nil, comp) :
                 vv \in WithMaxItems({Ptr(0), Ptr(2), Ptr(MaxInt64)}), c \in Kids}
             \cup {Structural("object", vv, nil, <<>>, StructuralOrBool(Ptr(c), TRUE), comp) :
                      vv \in WithMaxProperties({Ptr(2), Ptr(MaxInt64)}), c \in Kids}

ChainInputs == ChainSchemas(MaxChain, [err |-> nil, results |-> << CompilationResult(nil, 3, 5) >>])

\* the helpers of cost_test.go; a rule is given by what the compiler answers
\* for it
genStringSchema(maxLength) ==
    Structural("string", ValueValidation(nil, maxLength, nil), nil, <<>>, nil, NoRules)

genArraySchema(maxItems, items) ==
    Structural("array", ValueValidation(maxItems, nil, nil), items, <<>>, nil, NoRules)

genRootSchema(childName, childSchema) ==
    Structural("object", nil, nil, (childName :> childSchema), nil, NoRules)

withRule(s, rule) == [s EXCEPT !.XValidations = Append(@, rule)]

\* the schemas of the tests "array" and "arrayWithSafeCost" of TestCost
TestSchemas ==
    {genRootSchema("array",
                   withRule(genArraySchema(maxItems, Ptr(genStringSchema(nil))),
                            CompilationResult(nil, baseCost, cardinality))) :
        maxItems \in {nil, Ptr(5)}, baseCost \in {0, 3, MaxInt64}, cardinality \in {2, 5}}

\* the schema of the test "compileError" of TestCost with a second rule, and
\* an array whose rule and whose items' rule fail to compile; the failed
\* result comes with the cost and cardinality maxCost and maxCardinality
CompileErrorSchemas ==
    {withRule(withRule(genStringSchema(nil),
                       CompilationResult(NewError("syntax error"), maxCost, maxCardinality)),
              CompilationResult(nil, 3, 5)) :
        maxCost \in {0, MaxInt64}, maxCardinality \in {0, 2}}
    \cup {genRootSchema("array",
              withRule(genArraySchema(Ptr(2),
                           Ptr(withRule(genStringSchema(nil),
                                   CompilationResult(NewError("type error"), maxCost, 2)))),
                       CompilationResult(NewError("syntax error"), 0, 0))) :
             maxCost \in {0, MaxInt64}}

\* nodes of a kind that is none of the kinds of a structural schema, with
\* items, a property and a value schema that each lack a bound and carry a
\* rule over the budget: alone, below an array, and as a property next to
\* another one
UnknownKindSchemas ==
    LET kid == withRule(genStringSchema(nil), CompilationResult(nil, MaxInt64, 2))
        unknown(type) ==
            Structural(type, nil, Ptr(kid), ("array" :> kid),
                       StructuralOrBool(Ptr(kid), TRUE),
                       [err |-> nil, results |-> << CompilationResult(nil, 3, 5) >>])
    IN  UNION {{unknown(type),
                genArraySchema(Ptr(2), Ptr(unknown(type))),
                Structural("object", nil, nil,
                           ("array" :> unknown(type)) @@ ("other" :> kid), nil, NoRules)} :
               type \in {"", "legacy"}}

\* objects whose additionalProperties is a boolean without a value schema,
\* with and without maxProperties, that also declare a property carrying a
\* rule: as the root and as the items of an array
BoolMapSchemas ==
    LET kid == withRule(genStringSchema(nil), CompilationResult(nil, 3, 5))
        boolMap(maxProperties, b) ==
            Structural("object", ValueValidation(nil, nil, maxProperties), nil,
                       ("other" :> kid), StructuralOrBool(nil, b), NoRules)
    IN  UNION {{boolMap(maxProperties, b),
                genArraySchema(maxItems, Ptr(boolMap(maxProperties, b)))} :
               maxProperties \in {nil, Ptr(2)}, maxItems \in {nil, Ptr(2)}, b \in BOOLEAN}

\* ------------------------------------------------------------------------
\* State
\* ------------------------------------------------------------------------

VARIABLES
    schema,         \* the structural schema handed to the linters
    lstate,         \* CheckMaxLimits: "idle", "running", "returned", "panicked"
    limitStack,     \* the calls of checkMaxLimits still to run, next one first
    limitErrors,    \* the LimitErrors appended so far
    limitVisited,   \* the bag of the calls of checkMaxLimits that have run
    cstate,         \* CheckExprCost: "idle", "running", "returned", "panicked"
    costStack,      \* the calls of checkExprCost still to run, next one first
    costErrors,     \* the CostErrors appended so far
    compileErrors,  \* the compile errors appended so far
    costVisited,    \* the bag of the calls of checkExprCost that have run, each
                    \* with the number of rules it evaluated
    costCall,       \* pointer to the call of checkExprCost that ran last
    exprCosts,      \* the values exprCost took in that call, per rule
    exitStatus,     \* pointer to the exit status of the command
    args,           \* arguments of a direct call of one of the functions
    result          \* pointer to the result of that call

vars == << schema, lstate, limitStack, limitErrors, limitVisited, cstate, costStack,
           costErrors, compileErrors, costVisited, costCall, exprCosts, exitStatus,
           args, result >>

limitVars == << lstate, limitStack, limitErrors, limitVisited >>

costVars == << cstate, costStack, costErrors, compileErrors, costVisited, costCall, exprCosts >>

callVars == << args, result >>

InitLinters ==
    /\ lstate = "idle"
    /\ limitStack = <<>>
    /\ limitErrors = <<>>
    /\ limitVisited = EmptyBag
    /\ cstate = "idle"
    /\ costStack = <<>>
    /\ costErrors = <<>>
    /\ compileErrors = <<>>
    /\ costVisited = EmptyBag
    /\ costCall = nil
    /\ exprCosts = <<>>
    /\ exitStatus = nil

Init ==
    /\ \/ \E input \in SchemaInputs : schema \in SchemasOf(input)
       \/ schema \in ChainInputs
       \/ schema \in TestSchemas
       \/ schema \in CompileErrorSchemas
       \/ schema \in UnknownKindSchemas
       \/ schema \in BoolMapSchemas
    /\ InitLinters
    /\ args = << 0, 0 >>
    /\ result = nil

\* ------------------------------------------------------------------------
\* CheckMaxLimits
\* ------------------------------------------------------------------------

\* CheckMaxLimits(schema): the first call of checkMaxLimits
CheckMaxLimits ==
    /\ lstate = "idle"
    /\ lstate' = "running"
    /\ limitStack' = << LimitCall(Ptr(schema), NewPath(<< "openAPIV3Schema" >>)) >>
    /\ UNCHANGED << schema, limitErrors, limitVisited, costVars, exitStatus, callVars >>

\* checkMaxLimits that also empties the CostErrors collected so far, as if
\* the two linters kept their findings in one place
checkMaxLimitsClearingCostErrors ==
    /\ lstate = "running"
    /\ limitStack # <<>>
    /\ LET call == Head(limitStack)
       IN  IF call.schema = nil
           THEN /\ lstate' = "panicked"
                /\ exitStatus' = Ptr(2)
                /\ UNCHANGED << limitStack, limitErrors, limitVisited >>
           ELSE LET s == Deref(call.schema)
                IN  \E order \in RangeOrders(DOMAIN s.Properties) :
                        /\ limitVisited' = limitVisited (+) SetToBag({call})
                        /\ limitErrors' = limitErrors \o limitOwnErrors(s, call.path)
                        /\ limitStack' = limitCalls(s, call.path, order) \o Tail(limitStack)
                        /\ UNCHANGED << lstate, exitStatus >>
    /\ costErrors' = <<>>
    /\ UNCHANGED << schema, cstate, costStack, compileErrors, costVisited, costCall,
                    exprCosts, callVars >>

\* one call of checkMaxLimits up to its recursive calls; reading schema.Type
\* through a nil pointer panics
checkMaxLimits ==
    /\ lstate = "running"
    /\ limitStack # <<>>
    /\ LET call == Head(limitStack)
       IN  IF call.schema = nil
           THEN /\ lstate' = "panicked"
                /\ exitStatus' = Ptr(2)
                /\ UNCHANGED << limitStack, limitErrors, limitVisited >>
           ELSE LET s == Deref(call.schema)
                IN  \E order \in RangeOrders(DOMAIN s.Properties) :
                        /\ limitVisited' = limitVisited (+) SetToBag({call})
                        /\ limitErrors' = limitErrors \o limitOwnErrors(s, call.path)
                        /\ limitStack' = limitCalls(s, call.path, order) \o Tail(limitStack)
                        /\ UNCHANGED << lstate, exitStatus >>
    /\ UNCHANGED << schema, costVars, callVars >>

\* the outermost call of checkMaxLimits returns to the caller
ReturnMaxLimits ==
    /\ lstate = "running"
    /\ limitStack = <<>>
    /\ lstate' = "returned"
    /\ UNCHANGED << schema, limitStack, limitErrors, limitVisited, costVars, exitStatus,
                    callVars >>

\* ------------------------------------------------------------------------
\* CheckExprCost
\* ------------------------------------------------------------------------

\* CheckExprCost applying the bound of the root to the cardinality of the
\* root's own rules
checkExprCostFromRootBound ==
    /\ cstate = "idle"
    /\ cstate' = "running"
    /\ costStack' = << CostCall(Ptr(schema),
                                NewPath(<< "spec", "validation", "openAPIV3Schema" >>),
                                MultiplyByElementCost(rootCostInfo, Ptr(schema))) >>
    /\ UNCHANGED << schema, limitVars, costErrors, compileErrors, costVisited, costCall,
                    exprCosts, exitStatus, callVars >>

\* CheckExprCost(schema): the first call of checkExprCost
CheckExprCost ==
    /\ cstate = "idle"
    /\ cstate' = "running"
    /\ costStack' = << CostCall(Ptr(schema),
                                NewPath(<< "spec", "validation", "openAPIV3Schema" >>),
                                rootCostInfo) >>
    /\ UNCHANGED << schema, limitVars, costErrors, compileErrors, costVisited, costCall,
                    exprCosts, exitStatus, callVars >>

\* one call of checkExprCost up to its recursive calls; compiling or reading
\* the type of a nil schema panics
checkExprCost ==
    /\ cstate = "running"
    /\ costStack # <<>>
    /\ LET call == Head(costStack)
       IN  IF call.schema = nil
           THEN /\ cstate' = "panicked"
                /\ exitStatus' = Ptr(2)
                /\ UNCHANGED << costStack, costErrors, compileErrors, costVisited, costCall,
                                exprCosts >>
           ELSE LET s == Deref(call.schema)
                    compiled == Compile(s)
                IN  /\ costCall' = Ptr(call)
                    /\ UNCHANGED << cstate, exitStatus >>
                    /\ costVisited' = costVisited
                           (+) SetToBag({CostVisit(call, Len(compiled.results))})
                    /\ IF compiled.err # nil
                       THEN /\ compileErrors' = compileErrors \o << compiled.err >>
                            /\ costStack' = Tail(costStack)
                            /\ exprCosts' = <<>>
                            /\ UNCHANGED costErrors
                       ELSE \E order \in RangeOrders(DOMAIN s.Properties) :
                            /\ exprCosts' = exprCostsOf(compiled.results, call.nodeCostInfo)
                            /\ compileErrors' = compileErrors \o compileOwnErrors(compiled.results)
                            /\ costErrors' = costErrors
                                   \o costOwnErrors(compiled.results, call.path, call.nodeCostInfo)
                            /\ costStack' = costCalls(s, call.path, call.nodeCostInfo, order)
                                   \o Tail(costStack)
    /\ UNCHANGED << schema, limitVars, callVars >>

\* ReturnExprCost handing the CostErrors back in reverse order
returnExprCostReversed ==
    /\ cstate = "running"
    /\ costStack = <<>>
    /\ cstate' = "returned"
    /\ costErrors' = [i \in DOMAIN costErrors |-> costErrors[Len(costErrors) + 1 - i]]
    /\ UNCHANGED << schema, limitVars, costStack, compileErrors, costVisited, costCall,
                    exprCosts, exitStatus, callVars >>

\* the outermost call of checkExprCost returns to the caller
ReturnExprCost ==
    /\ cstate = "running"
    /\ costStack = <<>>
    /\ cstate' = "returned"
    /\ UNCHANGED << schema, limitVars, costStack, costErrors, compileErrors, costVisited,
                    costCall, exprCosts, exitStatus, callVars >>

\* ------------------------------------------------------------------------
\* The command (cmd/celvet/main.go)
\* ------------------------------------------------------------------------

\* main, like TestMaxLimits, calls CheckMaxLimits first
CallCheckMaxLimits == exitStatus = nil /\ cstate = "idle" /\ CheckMaxLimits

StepMaxLimits == exitStatus = nil /\ (checkMaxLimits \/ ReturnMaxLimits)

\* main calls CheckExprCost once CheckMaxLimits has returned; TestCost calls
\* it on its own
CallCheckExprCost == exitStatus = nil /\ lstate \in {"idle", "returned"} /\ CheckExprCost

StepExprCost == exitStatus = nil /\ (checkExprCost \/ ReturnExprCost)

\* os.Exit(1) if any error was returned, else the return from main
MainExit ==
    /\ exitStatus = nil
    /\ lstate = "returned"
    /\ cstate = "returned"
    /\ exitStatus' = Ptr(IF Len(limitErrors) + Len(costErrors) + Len(compileErrors) > 0
                         THEN 1 ELSE 0)
    /\ UNCHANGED << schema, limitVars, costVars, callVars >>

Next ==
    \/ CallCheckMaxLimits
    \/ StepMaxLimits
    \/ CallCheckExprCost
    \/ StepExprCost
    \/ MainExit

Spec == Init /\ [][Next]_vars

\* ------------------------------------------------------------------------
\* Both linters called a second time on the same schema
\* ------------------------------------------------------------------------

\* small trees of every shape, objects with two properties included, without
\* rules and with each of the rule lists on every node
AgainSchemas ==
    Schemas(1, 0, NoPlan, LimitFamily)
    \cup UNION {Schemas(1, 0, PlanUniform(rs), CostFamily) : rs \in RuleSets}

InitAgain ==
    /\ schema \in AgainSchemas
    /\ InitLinters
    /\ args = << 0, 0 >>
    /\ result = nil

\* both linters have returned: their findings are kept in result and the
\* caller starts over on the same schema
CallAgain ==
    /\ exitStatus = nil
    /\ lstate = "returned"
    /\ cstate = "returned"
    /\ result = nil
    /\ result' = Ptr([limitErrors |-> limitErrors, costErrors |-> costErrors,
                      compileErrors |-> compileErrors])
    /\ lstate' = "idle"
    /\ limitStack' = <<>>
    /\ limitErrors' = <<>>
    /\ limitVisited' = EmptyBag
    /\ cstate' = "idle"
    /\ costStack' = <<>>
    /\ costErrors' = <<>>
    /\ compileErrors' = <<>>
    /\ costVisited' = EmptyBag
    /\ costCall' = nil
    /\ exprCosts' = <<>>
    /\ UNCHANGED << schema, exitStatus, args >>

NextAgain ==
    \/ CallCheckMaxLimits
    \/ StepMaxLimits
    \/ CallCheckExprCost
    \/ StepExprCost
    \/ CallAgain

SpecAgain == InitAgain /\ [][NextAgain]_vars

\* ------------------------------------------------------------------------
\* Both linters on the same schema with their steps interleaved
\* ------------------------------------------------------------------------

InterleavedSchemas == AgainSchemas \cup TestSchemas \cup CompileErrorSchemas

InitInterleaved ==
    /\ schema \in InterleavedSchemas
    /\ InitLinters
    /\ args = << 0, 0 >>
    /\ result = nil

\* either linter is called whatever the other one is doing
GoCheckMaxLimits == exitStatus = nil /\ CheckMaxLimits

GoCheckExprCost == exitStatus = nil /\ CheckExprCost

NextInterleaved ==
    \/ GoCheckMaxLimits
    \/ StepMaxLimits
    \/ GoCheckExprCost
    \/ StepExprCost

SpecInterleaved == InitInterleaved /\ [][NextInterleaved]_vars

\* ------------------------------------------------------------------------
\* CheckExprCost on its own, as TestCost calls it
\* ------------------------------------------------------------------------

NextCost ==
    \/ CallCheckExprCost
    \/ StepExprCost

SpecCost == Init /\ [][NextCost]_vars

\* ------------------------------------------------------------------------
\* Direct calls of multiplyWithOverflowGuard
\* ------------------------------------------------------------------------

InitMul ==
    /\ schema = Structural("integer", nil, nil, <<>>, nil, NoRules)
    /\ InitLinters
    /\ args \in (0..MaxUint) \X (0..MaxUint)
    /\ result = nil

CallMultiply ==
    /\ result = nil
    /\ result' = Ptr(multiplyWithOverflowGuard(args[1], args[2]))
    /\ UNCHANGED << schema, limitVars, costVars, exitStatus, args >>

NextMul == CallMultiply

SpecMul == InitMul /\ [][NextMul]_vars

\* ------------------------------------------------------------------------
\* Direct calls of MultiplyByElementCost
\* ------------------------------------------------------------------------

\* the cardinalities a costInfo is taken from
Cardinalities == {unbounded} \cup {uint64ptr(c) : c \in {0, 1, 2, MaxInt64, MaxUint}}

\* the schema pointers MultiplyByElementCost is called with
PropagateSchemas ==
    {nil} \cup {Ptr(s) : s \in Schemas(1, 0, NoPlan, LimitFamily)
                             \cup Schemas(1, 0, NoPlan, CostFamily)}

InitPropagate ==
    /\ schema = Structural("integer", nil, nil, <<>>, nil, NoRules)
    /\ InitLinters
    /\ args \in {costInfo(c) : c \in Cardinalities} \X PropagateSchemas
    /\ result = nil

CallMultiplyByElementCost ==
    /\ result = nil
    /\ result' = Ptr(MultiplyByElementCost(args[1], args[2]))
    /\ UNCHANGED << schema, limitVars, costVars, exitStatus, args >>

NextPropagate == CallMultiplyByElementCost

SpecPropagate == InitPropagate /\ [][NextPropagate]_vars

\* ------------------------------------------------------------------------
\* CheckExprCost on two chains that differ in one bound
\* ------------------------------------------------------------------------

\* the values of maxItems and maxProperties in the chains
ChainBounds == {-1, 0, 1, 2, MaxInt64}

\* the rules every node of the chains carries, as the compiler answers them
ChainRules ==
    << CompilationResult(nil, 3, 5), CompilationResult(nil, 1, 0),
       CompilationResult(nil, MaxUint, 2) >>

\* the chain of arrays and maps of the given kinds and bounds, from the root
\* down, over a string
RECURSIVE BoundedChain(_, _)
BoundedChain(kinds, bounds) ==
    LET comp == [err |-> nil, results |-> ChainRules]
    IN  IF kinds = <<>>
        THEN Structural("string", nil, nil, <<>>, nil, comp)
        ELSE LET kid == BoundedChain(Tail(kinds), Tail(bounds))
             IN  IF Head(kinds) = "array"
                 THEN Structural("array", ValueValidation(Ptr(Head(bounds)), nil, nil),
                                 Ptr(kid), <<>>, nil, comp)
                 ELSE Structural("object", ValueValidation(nil, nil, Ptr(Head(bounds))),
                                 nil, <<>>, StructuralOrBool(Ptr(kid), TRUE), comp)

\* the kinds of the ancestors in the chains: arrays only, and maps and
\* arrays in turn
ChainKinds ==
    {[k \in 1..MaxChain |-> "array"],
     [k \in 1..MaxChain |-> IF k % 2 = 1 THEN "object" ELSE "array"]}

\* checkExprCost on a node of a chain: the costs of the rules of each node
\* from that node down, and the CostErrors returned
RECURSIVE checkExprCostOnChain(_)
checkExprCostOnChain(call) ==
    LET s == Deref(call.schema)
        compiled == Compile(s)
        calls == costCalls(s, call.path, call.nodeCostInfo, <<>>)
        below == IF calls = <<>>
                 THEN [exprCosts |-> <<>>, costErrors |-> <<>>]
                 ELSE checkExprCostOnChain(calls[1])
    IN  [exprCosts |-> << exprCostsOf(compiled.results, call.nodeCostInfo) >> \o below.exprCosts,
         costErrors |-> costOwnErrors(compiled.results, call.path, call.nodeCostInfo)
                            \o below.costErrors]

\* CheckExprCost on a chain
CheckExprCostOnChain(chain) ==
    checkExprCostOnChain(CostCall(Ptr(chain),
                                  NewPath(<< "spec", "validation", "openAPIV3Schema" >>),
                                  rootCostInfo))

\* a chain and the same chain with the bound of one ancestor lowered
InitMonotone ==
    /\ schema = Structural("integer", nil, nil, <<>>, nil, NoRules)
    /\ InitLinters
    /\ \E kinds \in ChainKinds, bounds \in [1..MaxChain -> ChainBounds], k \in 1..MaxChain :
          \E lower \in {b \in ChainBounds : b < bounds[k]} :
              args = << BoundedChain(kinds, bounds),
                        BoundedChain(kinds, [bounds EXCEPT ![k] = lower]) >>
    /\ result = nil

\* CheckExprCost is called on the chain and on the chain with the lower bound
CallCheckExprCostOnBoth ==
    /\ result = nil
    /\ result' = Ptr(<< CheckExprCostOnChain(args[1]), CheckExprCostOnChain(args[2]) >>)
    /\ UNCHANGED << schema, limitVars, costVars, exitStatus, args >>

NextMonotone == CallCheckExprCostOnBoth

SpecMonotone == InitMonotone /\ [][NextMonotone]_vars

\* ------------------------------------------------------------------------
\* Reference notions for the properties
\* ------------------------------------------------------------------------

\* the nodes reachable from s through items, properties and the value schema
\* of additionalProperties, each with its path in either linter and its
\* ancestors from the root down
RECURSIVE NodesBelow(_, _, _, _)
NodesBelow(s, limitPath, costPath, ancestors) ==
    LET here == [node |-> s, limitPath |-> limitPath, costPath |-> costPath,
                 ancestors |-> ancestors]
        below == Append(ancestors, s)
        viaItems ==
            IF s.Type = "array" /\ s.Items # nil
            THEN NodesBelow(Deref(s.Items), Child(limitPath, "<items>"),
                            Child(costPath, "items"), below)
            ELSE {}
        viaProperties ==
            IF s.Type = "object"
            THEN UNION {NodesBelow(s.Properties[k], Child(limitPath, k),
                                   Key(Child(costPath, "properties"), k), below) :
                           k \in DOMAIN s.Properties}
            ELSE {}
        viaAdditional ==
            IF s.Type = "object" /\ s.AdditionalProperties # nil
               /\ Deref(s.AdditionalProperties).Structural # nil
            THEN NodesBelow(Deref(Deref(s.AdditionalProperties).Structural), limitPath,
                            Child(costPath, "additionalProperties"), below)
            ELSE {}
    IN  {here} \cup viaItems \cup viaProperties \cup viaAdditional

SchemaNodes ==
    NodesBelow(schema, NewPath(<< "openAPIV3Schema" >>),
               NewPath(<< "spec", "validation", "openAPIV3Schema" >>), <<>>)

\* the bound field is declared on the node
Declared(s, field) == s.ValueValidation # nil /\ Deref(s.ValueValidation)[field] # nil

\* an object used as an open map: additionalProperties is present and allows
\* further properties, with or without a schema for their values
IsOpenMap(s) ==
    /\ s.Type = "object"
    /\ s.AdditionalProperties # nil
    /\ (Deref(s.AdditionalProperties).Bool \/ Deref(s.AdditionalProperties).Structural # nil)

\* the kind of bound the node lacks, "none" if it lacks none
MissingBound(s) ==
    CASE s.Type = "array" /\ ~Declared(s, "MaxItems") -> SchemaTypeList
      [] s.Type = "string" /\ ~Declared(s, "MaxLength") -> SchemaTypeString
      [] IsOpenMap(s) /\ ~Declared(s, "MaxProperties") -> SchemaTypeMap
      [] OTHER -> "none"

\* the nodes a finding with this path and kind can be about
NodesMissing(path, kind) ==
    {n \in SchemaNodes : n.limitPath = path /\ MissingBound(n.node) = kind}

Count(seq, e) == Cardinality({i \in DOMAIN seq : seq[i] = e})

\* min(a * b, MaxUint) over the integers
SaturatedProduct(x, y) == IF x * y > MaxUint THEN MaxUint ELSE x * y

\* ------------------------------------------------------------------------
\* C1
\* ------------------------------------------------------------------------

\* C1: when CheckMaxLimits has returned, every reachable array without
\* maxItems, string without maxLength and open map without maxProperties has
\* exactly one finding of its kind at its path: the findings with that path
\* and kind are as many as the nodes with that path lacking that bound.
C1_EveryMissingBoundReported ==
    lstate = "returned" =>
        \A n \in SchemaNodes :
            MissingBound(n.node) # "none" =>
                Count(limitErrors, LimitError(n.limitPath, MissingBound(n.node)))
                    = Cardinality(NodesMissing(n.limitPath, MissingBound(n.node)))

\* ------------------------------------------------------------------------
\* C2
\* ------------------------------------------------------------------------

\* C2: no finding is about a node that declares its bound or has another
\* kind: at any time the findings with one path and kind are at most as many
\* as the arrays, strings or open maps at that path that lack that bound.
C2_NoFindingForBoundedNode ==
    limitErrors # <<>> =>
        LET nodes == SchemaNodes
        IN  \A i \in DOMAIN limitErrors :
                Count(limitErrors, limitErrors[i])
                    <= Cardinality({n \in nodes : /\ n.limitPath = limitErrors[i].Path
                                                 /\ MissingBound(n.node) = limitErrors[i].Type})

\* a bounded array over an unbounded string has been checked, and the string
\* was reported
C2_Witness ==
    /\ lstate = "returned"
    /\ \E n \in SchemaNodes :
          /\ n.node.Type = "array"
          /\ Declared(n.node, "MaxItems")
          /\ \E i \in DOMAIN limitErrors :
                limitErrors[i] = LimitError(Child(n.limitPath, "<items>"), SchemaTypeString)

\* ------------------------------------------------------------------------
\* C3
\* ------------------------------------------------------------------------

\* C3: in every call of checkExprCost whose node compiled, every rule has an
\* effective cost, and for a rule without error it is min(MaxCost * c, MaxUint)
\* when the cardinality handed to the call is the number c, and
\* min(MaxCost * MaxCardinality, MaxUint), with the compiler's cardinality,
\* only when the cardinality handed to the call is unbounded.
C3_EffectiveCost ==
    costCall # nil =>
        LET call == Deref(costCall)
            s == Deref(call.schema)
            card == call.nodeCostInfo.MaxCardinality
        IN  s.CompileErr = nil =>
                /\ Len(exprCosts) = Len(s.XValidations)
                /\ \A i \in DOMAIN exprCosts :
                      s.XValidations[i].Error = nil =>
                          exprCosts[i] =
                              IF card # unbounded
                              THEN SaturatedProduct(s.XValidations[i].MaxCost, Deref(card))
                              ELSE SaturatedProduct(s.XValidations[i].MaxCost,
                                                    s.XValidations[i].MaxCardinality)

\* a rule of cost 3 and compiler cardinality 5 was evaluated under the
\* structural bound 2: its cost is 6, not 15
C3_Witness ==
    /\ costCall # nil
    /\ Deref(costCall).nodeCostInfo.MaxCardinality = Ptr(2)
    /\ Deref(Deref(costCall).schema).XValidations = << CompilationResult(nil, 3, 5) >>
    /\ exprCosts = << 6 >>

\* ------------------------------------------------------------------------
\* C4
\* ------------------------------------------------------------------------

\* the CostErrors expected of a call at path whose rules have the given costs
OverBudget(path, costs) ==
    Flatten([i \in 1..Len(costs) |->
        IF costs[i] > StaticEstimatedCostLimit
        THEN << [Path |-> Append(Append(Append(path, NameSeg("x-kubernetes-validations")),
                                        IndexSeg(i - 1)), NameSeg("rule")),
                 Cost |-> costs[i]] >>
        ELSE <<>>])

\* C4: a call of checkExprCost appends one CostError for each of its rules
\* whose effective cost is strictly greater than the budget, in rule order,
\* with the path of the node, the index of the rule and that cost, and none
\* for a rule whose cost is at most the budget; no other step changes the
\* CostErrors.
C4_CostExceededIffOverBudget ==
    [][ IF cstate = "running" /\ costStack # <<>> /\ costStack' # costStack
        THEN costErrors' = costErrors \o OverBudget(Head(costStack).path, exprCosts')
        ELSE costErrors' = costErrors ]_vars

\* two rules were evaluated, one saturating above the budget and one costing
\* exactly the budget: only the first was reported
C4_Witness ==
    /\ costCall # nil
    /\ exprCosts = << MaxUint, StaticEstimatedCostLimit >>
    /\ costErrors # <<>>
    /\ costErrors[Len(costErrors)] =
           CostError(rulePath(Deref(costCall).path, 0), MaxUint)

\* ------------------------------------------------------------------------
\* C5
\* ------------------------------------------------------------------------

\* C5: multiplyWithOverflowGuard(a, b) is min(a * b, MaxUint): 0 when a is 0,
\* the product when it fits, MaxUint when it does not, never more than
\* MaxUint and never the wrapped product.
C5_MultiplySaturates ==
    result # nil =>
        LET a == args[1]
            b == args[2]
            r == Deref(result)
        IN  /\ r = SaturatedProduct(a, b)
            /\ a = 0 => r = 0
            /\ a * b <= MaxUint => r = a * b
            /\ a * b > MaxUint => r = MaxUint
            /\ r <= MaxUint

\* a product that does not fit, and whose wrapped value is not MaxUint, was
\* computed as MaxUint
C5_Witness ==
    /\ result # nil
    /\ args[1] * args[2] > MaxUint
    /\ WrapMul(args[1], args[2]) # MaxUint
    /\ Deref(result) = MaxUint

\* ------------------------------------------------------------------------
\* Reference notions for the cardinalities
\* ------------------------------------------------------------------------

\* the fan-out factor read off the declared bound as it stands
FanOutAsDeclared(s) ==
    CASE s.Type = "array" ->
            IF Declared(s, "MaxItems")
            THEN Ptr(Deref(Deref(s.ValueValidation).MaxItems))
            ELSE unbounded
      [] s.Type = "object" /\ s.AdditionalProperties # nil ->
            IF Declared(s, "MaxProperties")
            THEN Ptr(Deref(Deref(s.ValueValidation).MaxProperties))
            ELSE unbounded
      [] OTHER -> Ptr(1)

\* the fan-out factor, a negative declared bound counting as 0
FanOut(s) ==
    LET f == FanOutAsDeclared(s)
    IN  IF f # unbounded /\ Deref(f) < 0 THEN Ptr(0) ELSE f

\* the cardinality handed to the children, from the incoming cardinality c
\* and the factor f
Propagated(c, f) ==
    IF c = unbounded \/ f = unbounded
    THEN unbounded
    ELSE Ptr(SaturatedProduct(Deref(c), Deref(f)))

\* the nodes passed on the way from s along the rest of a path of
\* checkExprCost, from s down, the node at the end left out
RECURSIVE AncestorsAlong(_, _)
AncestorsAlong(s, rest) ==
    IF rest = <<>>
    THEN <<>>
    ELSE IF Head(rest) = NameSeg("items")
         THEN << s >> \o AncestorsAlong(Deref(s.Items), Tail(rest))
         ELSE IF Head(rest) = NameSeg("additionalProperties")
              THEN << s >> \o AncestorsAlong(Deref(Deref(s.AdditionalProperties).Structural),
                                            Tail(rest))
              ELSE << s >> \o AncestorsAlong(s.Properties[rest[2].name], Tail(Tail(rest)))

\* the ancestors, from the root down, of the node a call of checkExprCost
\* with this path is about
AncestorsAt(costPath) == AncestorsAlong(schema, SubSeq(costPath, 4, Len(costPath)))

\* the calls of checkExprCost that are pending or ran last
CostCalls ==
    {costStack[i] : i \in DOMAIN costStack}
    \cup (IF costCall = nil THEN {} ELSE {Deref(costCall)})

\* the fan-out factors of the ancestors of the node, from the root down
AncestorFactors(ancestors) == [i \in DOMAIN ancestors |-> FanOut(ancestors[i])]

HasUnboundedAncestor(ancestors) ==
    \E i \in DOMAIN ancestors : FanOut(ancestors[i]) = unbounded

RECURSIVE Product(_)
Product(factors) ==
    IF factors = <<>> THEN 1 ELSE Deref(Head(factors)) * Product(Tail(factors))

\* the product of the factors, saturated at MaxUint
SaturatedProductOf(factors) ==
    IF Product(factors) > MaxUint THEN MaxUint ELSE Product(factors)

\* ------------------------------------------------------------------------
\* C6
\* ------------------------------------------------------------------------

\* C6: every call of checkExprCost for a node with an ancestor array without
\* maxItems or an ancestor map without maxProperties is handed the unbounded
\* cardinality, whatever the other ancestors declare (0 included), and the
\* cost of each of its rules is min(MaxCost * MaxCardinality, MaxUint), with
\* the cardinality of the compiler.
C6_UnboundedAbsorbing ==
    /\ \A call \in CostCalls :
          (call.schema # nil /\ HasUnboundedAncestor(AncestorsAt(call.path)))
              => call.nodeCostInfo.MaxCardinality = unbounded
    /\ costCall # nil =>
          LET call == Deref(costCall)
              s == Deref(call.schema)
          IN  (s.CompileErr = nil /\ HasUnboundedAncestor(AncestorsAt(call.path))) =>
                  /\ Len(exprCosts) = Len(s.XValidations)
                  /\ \A i \in DOMAIN exprCosts :
                        exprCosts[i] = SaturatedProduct(s.XValidations[i].MaxCost,
                                                        s.XValidations[i].MaxCardinality)

\* a node below an array bounded by 0 over an array without bound was
\* checked with the unbounded cardinality and the compiler's cardinality
C6_Witness ==
    /\ costCall # nil
    /\ LET call == Deref(costCall)
           ancestors == AncestorsAt(call.path)
       IN  /\ Len(ancestors) = 2
           /\ FanOut(ancestors[1]) = Ptr(0)
           /\ FanOut(ancestors[2]) = unbounded
           /\ call.nodeCostInfo.MaxCardinality = unbounded
           /\ Deref(call.schema).XValidations = << CompilationResult(nil, 3, 5) >>
           /\ exprCosts = << SaturatedProduct(3, 5) >>

\* ------------------------------------------------------------------------
\* C7
\* ------------------------------------------------------------------------

\* C7: MultiplyByElementCost on a node hands down the incoming cardinality
\* times the fan-out factor of the node, saturated at MaxUint, and unbounded
\* if the factor is unbounded. The factor is the declared maxItems of an
\* array, the declared maxProperties of an object with additionalProperties,
\* unbounded if that bound is not declared, and 1 for an object without
\* additionalProperties and for every leaf kind. The data model declares the
\* bounds non-negative; a negative one counts as the factor 0.
C7_FanOut ==
    (result # nil /\ args[2] # nil) =>
        LET s == Deref(args[2])
        IN  /\ Deref(result).MaxCardinality
                  = Propagated(args[1].MaxCardinality, FanOut(s))
            /\ (FanOutAsDeclared(s) = unbounded \/ Deref(FanOutAsDeclared(s)) >= 0)
                  => FanOut(s) = FanOutAsDeclared(s)
            /\ (s.Type \notin {"array", "object"}
                \/ (s.Type = "object" /\ s.AdditionalProperties = nil))
                  => Deref(result).MaxCardinality = args[1].MaxCardinality

\* a map with maxProperties MaxInt64 was reached with the cardinality
\* MaxInt64 and hands down the saturated product
C7_Witness ==
    /\ result # nil
    /\ args[2] # nil
    /\ args[1].MaxCardinality = Ptr(MaxInt64)
    /\ Deref(args[2]).Type = "object"
    /\ FanOutAsDeclared(Deref(args[2])) = Ptr(MaxInt64)
    /\ MaxInt64 * MaxInt64 > MaxUint
    /\ Deref(result).MaxCardinality = Ptr(MaxUint)

\* ------------------------------------------------------------------------
\* C8
\* ------------------------------------------------------------------------

\* C8: a call of checkExprCost for a node whose ancestors all have a
\* concrete fan-out factor is handed the product of these factors saturated
\* at MaxUint, and the same value results from splitting the chain of
\* ancestors anywhere and multiplying the saturated products of the two
\* parts.
C8_CompositionIsProduct ==
    \A call \in CostCalls :
        (call.schema # nil /\ ~HasUnboundedAncestor(AncestorsAt(call.path))) =>
            LET factors == AncestorFactors(AncestorsAt(call.path))
                card == call.nodeCostInfo.MaxCardinality
            IN  /\ card = Ptr(SaturatedProductOf(factors))
                /\ \A k \in 0..Len(factors) :
                      card = Ptr(SaturatedProduct(
                                 SaturatedProductOf(SubSeq(factors, 1, k)),
                                 SaturatedProductOf(SubSeq(factors, k + 1, Len(factors)))))

\* a node below two ancestors whose product saturates and a third of
\* factor 0 was reached with the cardinality 0
C8_Witness ==
    /\ costCall # nil
    /\ AncestorFactors(AncestorsAt(Deref(costCall).path))
           = << Ptr(MaxInt64), Ptr(MaxInt64), Ptr(0) >>
    /\ MaxInt64 * MaxInt64 > MaxUint
    /\ Deref(costCall).nodeCostInfo.MaxCardinality = Ptr(0)

\* ------------------------------------------------------------------------
\* C9 and C10
\* ------------------------------------------------------------------------

\* the schema is a root object whose one property "array" is an array of
\* strings without maxLength that carries one rule
IsArrayScenario ==
    /\ schema.Type = "object"
    /\ schema.AdditionalProperties = nil
    /\ schema.XValidations = <<>>
    /\ DOMAIN schema.Properties = {"array"}
    /\ LET array == schema.Properties["array"]
       IN  /\ array.Type = "array"
           /\ Len(array.XValidations) = 1
           /\ array.XValidations[1].Error = nil
           /\ array.CompileErr = nil
           /\ array.Items # nil
           /\ Deref(array.Items).Type = "string"
           /\ ~Declared(Deref(array.Items), "MaxLength")

ScenarioArray == schema.Properties["array"]

ScenarioRule == ScenarioArray.XValidations[1]

ScenarioArrayPath ==
    Key(Child(NewPath(<< "spec", "validation", "openAPIV3Schema" >>), "properties"), "array")

\* the call of checkExprCost for the array of the scenario ran last
ArrayCallRan == costCall # nil /\ Deref(costCall).path = ScenarioArrayPath

\* the CostErrors are those of a rule of the given cost at index 0 of the array
ArrayRuleReported(cost) ==
    costErrors = IF cost > StaticEstimatedCostLimit
                 THEN << [Path |-> Append(Append(Append(ScenarioArrayPath,
                                       NameSeg("x-kubernetes-validations")),
                                       IndexSeg(0)), NameSeg("rule")),
                          Cost |-> cost] >>
                 ELSE <<>>

\* C9 as stated: in the scenario with no maxItems on the array, the rule of
\* the array is evaluated with the cost min(MaxCost * MaxCardinality, MaxUint)
\* and reported with it at the array, rule 0.
C9_ArrayRuleUsesIntrinsic ==
    (IsArrayScenario /\ ~Declared(ScenarioArray, "MaxItems") /\ ArrayCallRan) =>
        LET cost == SaturatedProduct(ScenarioRule.MaxCost, ScenarioRule.MaxCardinality)
        IN  exprCosts = << cost >> /\ ArrayRuleReported(cost)

\* C9 amended: in that scenario the rule of the array is evaluated with the
\* concrete cardinality 1 handed down from the root, so with the cost
\* min(MaxCost * 1, MaxUint) = MaxCost, and reported with it at the array,
\* rule 0, if that exceeds the budget.
C9_ArrayRuleUsesRootCardinality ==
    (IsArrayScenario /\ ~Declared(ScenarioArray, "MaxItems") /\ ArrayCallRan) =>
        LET cost == SaturatedProduct(ScenarioRule.MaxCost, 1)
        IN  /\ Deref(costCall).nodeCostInfo.MaxCardinality = Ptr(1)
            /\ exprCosts = << cost >>
            /\ ArrayRuleReported(cost)

\* the rule of an array without maxItems, of cost MaxInt64 and compiler
\* cardinality 2, was reported with the cost MaxInt64
C9_Witness ==
    /\ IsArrayScenario
    /\ ~Declared(ScenarioArray, "MaxItems")
    /\ ArrayCallRan
    /\ ScenarioRule = CompilationResult(nil, MaxInt64, 2)
    /\ exprCosts = << MaxInt64 >>
    /\ Len(costErrors) = 1
    /\ costErrors[1].Cost = MaxInt64

\* no list finding at the array of the scenario
NoListFindingAtArray ==
    \A i \in DOMAIN limitErrors :
        limitErrors[i] # LimitError(Child(NewPath(<< "openAPIV3Schema" >>), "array"),
                                    SchemaTypeList)

\* C10 as stated: in the scenario with maxItems = 5 on the array, the rule of
\* the array is evaluated with the cost min(MaxCost * 5, MaxUint), and
\* CheckMaxLimits has no finding for the array.
C10_ArrayRuleUsesMaxItems ==
    (IsArrayScenario /\ FanOutAsDeclared(ScenarioArray) = Ptr(5)) =>
        /\ ArrayCallRan => exprCosts = << SaturatedProduct(ScenarioRule.MaxCost, 5) >>
        /\ NoListFindingAtArray

\* C10 amended: in that scenario the rule of the array is evaluated with the
\* concrete cardinality 1 handed down from the root, neither with maxItems
\* nor with the cardinality of the compiler, so with the cost
\* min(MaxCost * 1, MaxUint) = MaxCost; maxItems = 5 is the cardinality handed
\* to the items; and CheckMaxLimits has no finding for the array.
C10_ArrayRuleUsesRootCardinality ==
    (IsArrayScenario /\ FanOutAsDeclared(ScenarioArray) = Ptr(5)) =>
        /\ ArrayCallRan =>
              /\ Deref(costCall).nodeCostInfo.MaxCardinality = Ptr(1)
              /\ exprCosts = << SaturatedProduct(ScenarioRule.MaxCost, 1) >>
              /\ ArrayRuleReported(SaturatedProduct(ScenarioRule.MaxCost, 1))
              /\ costStack # <<>>
              /\ Head(costStack).nodeCostInfo.MaxCardinality = Ptr(5)
        /\ NoListFindingAtArray

\* main has run CheckMaxLimits, which reported the string only, and the call
\* of checkExprCost for the array with maxItems = 5 gave its rule of cost 3
\* and compiler cardinality 2 the cost 3
C10_Witness ==
    /\ IsArrayScenario
    /\ FanOutAsDeclared(ScenarioArray) = Ptr(5)
    /\ lstate = "returned"
    /\ Len(limitErrors) = 1
    /\ limitErrors[1].Type = SchemaTypeString
    /\ ArrayCallRan
    /\ ScenarioRule = CompilationResult(nil, 3, 2)
    /\ exprCosts = << 3 >>

\* ------------------------------------------------------------------------
\* C11
\* ------------------------------------------------------------------------

\* the node, as a pointer, reached from the node p along the rest of a path
\* of checkExprCost; nil if the path leads to no node
RECURSIVE NodeAlong(_, _)
NodeAlong(p, rest) ==
    IF p = nil
    THEN nil
    ELSE IF rest = <<>>
         THEN p
         ELSE LET s == Deref(p)
              IN  IF Head(rest) = NameSeg("items")
                  THEN IF s.Type = "array" THEN NodeAlong(s.Items, Tail(rest)) ELSE nil
                  ELSE IF Head(rest) = NameSeg("additionalProperties")
                       THEN IF s.Type = "object" /\ s.AdditionalProperties # nil
                            THEN NodeAlong(Deref(s.AdditionalProperties).Structural, Tail(rest))
                            ELSE nil
                       ELSE IF /\ Head(rest) = NameSeg("properties")
                               /\ Len(rest) >= 2
                               /\ rest[2].kind = "key"
                               /\ s.Type = "object"
                               /\ rest[2].name \in DOMAIN s.Properties
                            THEN NodeAlong(Ptr(s.Properties[rest[2].name]), Tail(Tail(rest)))
                            ELSE nil

\* the node, as a pointer, a path of checkExprCost leads to from the root
NodeAtCostPath(costPath) ==
    IF Len(costPath) >= 3 /\ SubSeq(costPath, 1, 3) = NewPath(<< "spec", "validation", "openAPIV3Schema" >>)
    THEN NodeAlong(Ptr(schema), SubSeq(costPath, 4, Len(costPath)))
    ELSE nil

\* the compilation result, as a pointer, of the rule a CostError is about
RuleOf(costError) ==
    LET path == costError.Path
        node == NodeAtCostPath(SubSeq(path, 1, Len(path) - 3))
        index == path[Len(path) - 1].index
    IN  IF Len(path) >= 3 /\ node # nil /\ (index + 1) \in DOMAIN Deref(node).XValidations
        THEN Ptr(Deref(node).XValidations[index + 1])
        ELSE nil

\* C11: no CostError is ever about a rule whose compilation failed, whatever
\* cost and cardinality come with the failed result.
C11_NoCostErrorForFailedRule ==
    \A i \in DOMAIN costErrors :
        LET rule == RuleOf(costErrors[i])
        IN  rule # nil /\ Deref(rule).Error = nil

\* ------------------------------------------------------------------------
\* C12
\* ------------------------------------------------------------------------

\* the rules of the tree that fail to compile, each with the path of its
\* node, its index and the error of the compiler
FailingRules ==
    UNION {{[Path |-> n.costPath, RuleIndex |-> i - 1, Error |-> n.node.XValidations[i].Error] :
               i \in {j \in DOMAIN n.node.XValidations : n.node.XValidations[j].Error # nil}} :
           n \in SchemaNodes}

\* the compile error names the rule by path and index and carries its error
IdentifiesRule(compileError, rule) ==
    LET e == Deref(compileError)
    IN  /\ {"Path", "RuleIndex"} \subseteq DOMAIN e
        /\ e.Path = rule.Path
        /\ e.RuleIndex = rule.RuleIndex
        /\ e.err = rule.Error

\* C12: when CheckExprCost has returned, the compile errors are as many as
\* the failing rules of the tree, and every failing rule has a compile error
\* that names the path of its node and its rule index and carries the error
\* of the compiler.
C12_CompileFailedIdentifiesRule ==
    cstate = "returned" =>
        /\ Len(compileErrors) = Cardinality(FailingRules)
        /\ \A rule \in FailingRules :
              \E i \in DOMAIN compileErrors : IdentifiesRule(compileErrors[i], rule)

\* ------------------------------------------------------------------------
\* C13
\* ------------------------------------------------------------------------

\* the cardinality of a node with these ancestors: the saturated product of
\* their fan-out factors, unbounded if one of them is
CardinalityBelow(ancestors) ==
    IF HasUnboundedAncestor(ancestors)
    THEN unbounded
    ELSE Ptr(SaturatedProductOf(AncestorFactors(ancestors)))

\* the effective cost of a compilation result at a node with these ancestors
EffectiveCost(rule, ancestors) ==
    IF CardinalityBelow(ancestors) = unbounded
    THEN SaturatedProduct(rule.MaxCost, rule.MaxCardinality)
    ELSE SaturatedProduct(rule.MaxCost, Deref(CardinalityBelow(ancestors)))

\* the rules of the node are compiled and cost-checked and their findings
\* are among those returned
NodeIsChecked(n) ==
    IF n.node.CompileErr # nil
    THEN \E k \in DOMAIN compileErrors : compileErrors[k] = n.node.CompileErr
    ELSE \A i \in DOMAIN n.node.XValidations :
            LET rule == n.node.XValidations[i]
                cost == EffectiveCost(rule, n.ancestors)
            IN  /\ rule.Error # nil =>
                      \E k \in DOMAIN compileErrors : compileErrors[k] = Errorf(rule.Error)
                /\ (rule.Error = nil /\ cost > StaticEstimatedCostLimit) =>
                      \E k \in DOMAIN costErrors :
                          costErrors[k] = CostError(rulePath(n.costPath, i - 1), cost)

\* C13: a compile failure, of one rule or of a node as a whole, never aborts
\* the traversal: when CheckExprCost has returned, the findings of every
\* rule of every node of the tree are among those returned.
C13_FailureNeverAborts ==
    cstate = "returned" => \A n \in SchemaNodes : NodeIsChecked(n)

\* ------------------------------------------------------------------------
\* C14
\* ------------------------------------------------------------------------

\* C14: a second run of CheckMaxLimits or of CheckExprCost on the same tree
\* returns the findings of the first run, in the same order.
C14_SecondRunAgrees ==
    result # nil =>
        /\ lstate = "returned" => limitErrors = Deref(result).limitErrors
        /\ cstate = "returned" =>
              /\ costErrors = Deref(result).costErrors
              /\ compileErrors = Deref(result).compileErrors

\* ------------------------------------------------------------------------
\* C15
\* ------------------------------------------------------------------------

\* the finding sequences checkMaxLimits can return for a call when it runs
\* on its own, one for every order of the ranges over the properties; none
\* if it panics
RECURSIVE LimitRuns(_), LimitRunsOfCalls(_, _)
LimitRuns(call) ==
    IF call.schema = nil
    THEN {}
    ELSE LET s == Deref(call.schema)
         IN  UNION {LimitRunsOfCalls(limitOwnErrors(s, call.path),
                                     limitCalls(s, call.path, order)) :
                       order \in RangeOrders(DOMAIN s.Properties)}

LimitRunsOfCalls(sofar, calls) ==
    IF calls = <<>>
    THEN {sofar}
    ELSE UNION {LimitRunsOfCalls(sofar \o r, Tail(calls)) : r \in LimitRuns(Head(calls))}

\* the same for checkExprCost: the pairs of CostErrors and compile errors
RECURSIVE CostRuns(_), CostRunsOfCalls(_, _)
CostRuns(call) ==
    IF call.schema = nil
    THEN {}
    ELSE LET s == Deref(call.schema)
             compiled == Compile(s)
         IN  IF compiled.err # nil
             THEN {[costErrors |-> <<>>, compileErrors |-> << compiled.err >>]}
             ELSE UNION {CostRunsOfCalls(
                             [costErrors |-> costOwnErrors(compiled.results, call.path,
                                                           call.nodeCostInfo),
                              compileErrors |-> compileOwnErrors(compiled.results)],
                             costCalls(s, call.path, call.nodeCostInfo, order)) :
                           order \in RangeOrders(DOMAIN s.Properties)}

CostRunsOfCalls(sofar, calls) ==
    IF calls = <<>>
    THEN {sofar}
    ELSE UNION {CostRunsOfCalls([costErrors |-> sofar.costErrors \o r.costErrors,
                                 compileErrors |-> sofar.compileErrors \o r.compileErrors],
                                Tail(calls)) :
                   r \in CostRuns(Head(calls))}

LimitRunsAlone == LimitRuns(LimitCall(Ptr(schema), NewPath(<< "openAPIV3Schema" >>)))

CostRunsAlone ==
    CostRuns(CostCall(Ptr(schema), NewPath(<< "spec", "validation", "openAPIV3Schema" >>),
                      rootCostInfo))

IsPrefix(p, q) == Len(p) <= Len(q) /\ SubSeq(q, 1, Len(p)) = p

\* C15: with the steps of the two linters interleaved in any way, the
\* findings each linter has collected are at any time the beginning of, and
\* on its return equal to, findings it returns when it runs on its own (on a
\* tree on which it returns).
C15_LintersIndependent ==
    /\ (lstate = "running" /\ LimitRunsAlone # {}) =>
          \E r \in LimitRunsAlone : IsPrefix(limitErrors, r)
    /\ lstate = "returned" => limitErrors \in LimitRunsAlone
    /\ (cstate = "running" /\ CostRunsAlone # {}) =>
          \E r \in CostRunsAlone : /\ IsPrefix(costErrors, r.costErrors)
                                   /\ IsPrefix(compileErrors, r.compileErrors)
    /\ cstate = "returned" =>
          [costErrors |-> costErrors, compileErrors |-> compileErrors] \in CostRunsAlone

\* both linters are in the middle of their traversals and both have findings
C15_Witness ==
    /\ lstate = "running"
    /\ cstate = "running"
    /\ limitStack # <<>>
    /\ costStack # <<>>
    /\ limitErrors # <<>>
    /\ costErrors # <<>>

\* ------------------------------------------------------------------------
\* C16
\* ------------------------------------------------------------------------

\* an object with a schema for its additional properties and no
\* maxProperties, the values being strings without maxLength
IsUnboundedMapOfUnboundedStrings(s) ==
    /\ s.Type = "object"
    /\ s.AdditionalProperties # nil
    /\ Deref(s.AdditionalProperties).Structural # nil
    /\ ~Declared(s, "MaxProperties")
    /\ Deref(Deref(s.AdditionalProperties).Structural).Type = "string"
    /\ ~Declared(Deref(Deref(s.AdditionalProperties).Structural), "MaxLength")

\* C16: when CheckMaxLimits has returned, every map without maxProperties
\* whose values are strings without maxLength has its map finding directly
\* followed by the string finding of its values, both with the path of the
\* map.
C16_MapValuesAtMapPath ==
    lstate = "returned" =>
        \A n \in SchemaNodes :
            IsUnboundedMapOfUnboundedStrings(n.node) =>
                \E i \in DOMAIN limitErrors :
                    /\ limitErrors[i] = LimitError(n.limitPath, SchemaTypeMap)
                    /\ (i + 1) \in DOMAIN limitErrors
                    /\ limitErrors[i + 1] = LimitError(n.limitPath, SchemaTypeString)

\* the schema is such a map, and CheckMaxLimits returned the two findings
\* with the path of the root
C16_Witness ==
    /\ IsUnboundedMapOfUnboundedStrings(schema)
    /\ lstate = "returned"
    /\ limitErrors = << LimitError(NewPath(<< "openAPIV3Schema" >>), SchemaTypeMap),
                        LimitError(NewPath(<< "openAPIV3Schema" >>), SchemaTypeString) >>

\* ------------------------------------------------------------------------
\* C17
\* ------------------------------------------------------------------------

\* C17: the path of every call of checkExprCost, read segment by segment
\* from the root ("items" to the items, "properties" and a key to that
\* property, "additionalProperties" to the value schema), leads to the node
\* of the call and to no other; no two pending calls and no two CostErrors
\* share a path, and the path and index of every CostError name one rule of
\* one node.
C17_CostPathsIdentifyNodes ==
    /\ \A call \in CostCalls : NodeAtCostPath(call.path) = call.schema
    /\ \A i, j \in DOMAIN costStack :
          i # j => costStack[i].path # costStack[j].path
    /\ \A i, j \in DOMAIN costErrors :
          i # j => costErrors[i].Path # costErrors[j].Path
    /\ \A i \in DOMAIN costErrors : RuleOf(costErrors[i]) # nil

\* the value schema of a map below the root was checked at a path ending in
\* "additionalProperties", which differs from the path of the map, and its
\* rule was reported there
C17_Witness ==
    /\ costCall # nil
    /\ Len(Deref(costCall).path) = 5
    /\ Deref(costCall).path[5] = NameSeg("additionalProperties")
    /\ costErrors # <<>>
    /\ costErrors[Len(costErrors)].Path = rulePath(Deref(costCall).path, 0)
    /\ NodeAtCostPath(SubSeq(Deref(costCall).path, 1, 4)) # Deref(costCall).schema

\* ------------------------------------------------------------------------
\* C18
\* ------------------------------------------------------------------------

\* the property names in the order the trees declare them: "array" first
DeclarationOrder(names) ==
    CHOOSE order \in RangeOrders(names) : "array" \in names => order[1] = "array"

\* the findings of the subtree of a call in pre-order, the value schema of
\* additionalProperties before the properties, these in declaration order
RECURSIVE LimitPreOrder(_)
LimitPreOrder(call) ==
    IF call.schema = nil
    THEN <<>>
    ELSE LET s == Deref(call.schema)
             calls == limitCalls(s, call.path, DeclarationOrder(DOMAIN s.Properties))
         IN  limitOwnErrors(s, call.path)
                 \o Flatten([i \in DOMAIN calls |-> LimitPreOrder(calls[i])])

\* C18: CheckMaxLimits returns the findings in depth-first pre-order: those
\* of a node before those of its descendants, those of a subtree together,
\* those of the additionalProperties subtree before those of the properties,
\* and those of the properties in declaration order.
C18_PreOrderInDeclarationOrder ==
    lstate = "returned" =>
        limitErrors = LimitPreOrder(LimitCall(Ptr(schema), NewPath(<< "openAPIV3Schema" >>)))

\* ------------------------------------------------------------------------
\* C19
\* ------------------------------------------------------------------------

\* C19: neither linter ever fails on a tree with a missing child schema, an
\* array without item schema or an object whose additionalProperties has no
\* value schema: no call ends in a panic.
C19_MissingChildIsNoError ==
    /\ lstate # "panicked"
    /\ cstate # "panicked"

\* ------------------------------------------------------------------------
\* C20
\* ------------------------------------------------------------------------

\* the kind of the node is none of the kinds of a structural schema
IsUnrecognised(s) ==
    s.Type \notin {"array", "object", "string", "integer", "number", "boolean", "null"}

\* the next call of checkMaxLimits is for a node of unrecognised kind, and
\* it is made
LimitStepOnUnrecognised ==
    /\ lstate = "running"
    /\ limitStack # <<>>
    /\ Head(limitStack).schema # nil
    /\ IsUnrecognised(Deref(Head(limitStack).schema))
    /\ << lstate, limitStack, limitErrors >>' # << lstate, limitStack, limitErrors >>

\* the same for checkExprCost
CostStepOnUnrecognised ==
    /\ cstate = "running"
    /\ costStack # <<>>
    /\ Head(costStack).schema # nil
    /\ IsUnrecognised(Deref(Head(costStack).schema))
    /\ << cstate, costStack, costCall >>' # << cstate, costStack, costCall >>

\* C20: a call of either linter for a node of unrecognised kind makes no
\* recursive call, whatever items, properties and additionalProperties the
\* node has, and goes on with the pending calls without a panic;
\* checkMaxLimits adds no finding for it; and its fan-out factor is 1:
\* MultiplyByElementCost on it gives back the cardinality it was handed.
C20_UnrecognisedKindIsLeaf ==
    [][/\ LimitStepOnUnrecognised =>
              /\ limitErrors' = limitErrors
              /\ limitStack' = Tail(limitStack)
              /\ lstate' = "running"
       /\ CostStepOnUnrecognised =>
              /\ costStack' = Tail(costStack)
              /\ cstate' = "running"
              /\ MultiplyByElementCost(Head(costStack).nodeCostInfo, Head(costStack).schema)
                     = Head(costStack).nodeCostInfo
              /\ extractMaxElements(Deref(Head(costStack).schema)) = uint64ptr(1)]_vars

\* an object with a property of unrecognised kind that has items, a property
\* and a value schema, next to a string property: both linters returned, with
\* the findings of the string property and none from below the other one
C20_Witness ==
    /\ schema.Type = "object"
    /\ DOMAIN schema.Properties = {"array", "other"}
    /\ IsUnrecognised(schema.Properties["array"])
    /\ schema.Properties["array"].Items # nil
    /\ schema.Properties["array"].AdditionalProperties # nil
    /\ lstate = "returned"
    /\ cstate = "returned"
    /\ limitErrors = << LimitError(Child(NewPath(<< "openAPIV3Schema" >>), "other"),
                                   SchemaTypeString) >>
    /\ Len(costErrors) = 1
    /\ costErrors[1].Path[5] = KeySeg("other")

\* ------------------------------------------------------------------------
\* C21
\* ------------------------------------------------------------------------

\* C21: both linters only read the tree: no step of CheckMaxLimits or
\* CheckExprCost, nor their return, changes the schema (kinds, children,
\* bound fields, rule lists), and no step changes or removes a finding that
\* was already produced: each list of findings only grows at its end.
C21_ReadOnly ==
    [][/\ schema' = schema
       /\ IsPrefix(limitErrors, limitErrors')
       /\ IsPrefix(costErrors, costErrors')
       /\ IsPrefix(compileErrors, compileErrors')]_vars

\* both linters have returned on a tree of several nodes, each with more
\* than one finding of its kind
C21_Witness ==
    /\ lstate = "returned"
    /\ cstate = "returned"
    /\ Cardinality(SchemaNodes) >= 3
    /\ Len(limitErrors) >= 2
    /\ Len(costErrors) >= 2
    /\ Len(compileErrors) >= 2
    /\ costErrors[1] # costErrors[Len(costErrors)]

\* ------------------------------------------------------------------------
\* C22
\* ------------------------------------------------------------------------

\* the call of checkMaxLimits that visits the node; two nodes have the same
\* call when one is a property of a map and the other the same property of
\* the value schema of that map
LimitVisitOf(n) == LimitCall(Ptr(n.node), n.limitPath)

\* the call of checkExprCost that visits the node and evaluates each of its
\* rules
CostVisitOf(n) ==
    [schema |-> Ptr(n.node), path |-> n.costPath, evaluated |-> Len(n.node.XValidations)]

\* every call that has run visits a node of the tree, and no node was
\* visited twice: no call has run more often than there are nodes it visits
AtMostOnce(visited, VisitOf(_)) ==
    LET nodes == SchemaNodes
    IN  \A v \in BagToSet(visited) :
            CopiesIn(v, visited) <= Cardinality({n \in nodes : VisitOf(n) = v})

\* every node of the tree was visited once
EveryNodeOnce(visited, VisitOf(_)) ==
    LET nodes == SchemaNodes
    IN  \A n \in nodes :
            CopiesIn(VisitOf(n), visited) = Cardinality({m \in nodes : VisitOf(m) = VisitOf(n)})

\* C22: each linter terminates having processed every node of the tree
\* exactly once. A running linter can always take its next step; no call is
\* ever made twice for one node or for something that is no node of the
\* tree, so that the steps are at most as many as the nodes; and when the
\* linter has stopped, the calls that have run are exactly one per reachable
\* node, that of checkExprCost having evaluated each rule of the node.
C22_EveryNodeExactlyOnce ==
    /\ lstate = "running" => ENABLED StepMaxLimits
    /\ AtMostOnce(limitVisited, LimitVisitOf)
    /\ lstate \in {"returned", "panicked"} => EveryNodeOnce(limitVisited, LimitVisitOf)
    /\ cstate = "running" => ENABLED StepExprCost
    /\ AtMostOnce(costVisited, CostVisitOf)
    /\ cstate \in {"returned", "panicked"} => EveryNodeOnce(costVisited, CostVisitOf)

\* ------------------------------------------------------------------------
\* C23
\* ------------------------------------------------------------------------

\* an object with declared fields only
IsFixedFieldObject(s) == s.Type = "object" /\ s.AdditionalProperties = nil

\* C23: every call of checkExprCost is handed the saturated product of the
\* fan-out factors of the strict ancestors of its node, 1 at the root and
\* unbounded below an unbounded ancestor, and the rules of the node are
\* evaluated with that cardinality: the bound of the node itself enters only
\* the cardinality of the calls for its children. The rules of the root and
\* of a property of a root with declared fields only are evaluated with the
\* cardinality 1, so with their base cost.
C23_OwnRulesUseParentCardinality ==
    /\ \A call \in CostCalls :
          call.schema # nil =>
              call.nodeCostInfo.MaxCardinality = CardinalityBelow(AncestorsAt(call.path))
    /\ costCall # nil =>
          LET call == Deref(costCall)
              s == Deref(call.schema)
              ancestors == AncestorsAt(call.path)
          IN  s.CompileErr = nil =>
                  /\ Len(exprCosts) = Len(s.XValidations)
                  /\ \A i \in DOMAIN exprCosts :
                        exprCosts[i] = EffectiveCost(s.XValidations[i], ancestors)
                  /\ (ancestors = <<>> \/ (Len(ancestors) = 1 /\ IsFixedFieldObject(schema))) =>
                        /\ call.nodeCostInfo.MaxCardinality = Ptr(1)
                        /\ \A i \in DOMAIN exprCosts : exprCosts[i] = s.XValidations[i].MaxCost

\* the rule of cost 3 of a root array with maxItems MaxInt64 was evaluated
\* with the cost 3, and the call for its items is pending with the
\* cardinality MaxInt64
C23_Witness ==
    /\ costCall # nil
    /\ Deref(costCall).path = NewPath(<< "spec", "validation", "openAPIV3Schema" >>)
    /\ schema.Type = "array"
    /\ FanOutAsDeclared(schema) = Ptr(MaxInt64)
    /\ schema.XValidations = << CompilationResult(nil, 3, 5) >>
    /\ exprCosts = << 3 >>
    /\ costStack # <<>>
    /\ Head(costStack).path = Child(Deref(costCall).path, "items")
    /\ Head(costStack).nodeCostInfo.MaxCardinality = Ptr(MaxInt64)

\* ------------------------------------------------------------------------
\* C24
\* ------------------------------------------------------------------------

\* the path of the node a CostError is about, and the index of its rule
NodePathOf(costError) == SubSeq(costError.Path, 1, Len(costError.Path) - 3)

RuleIndexOf(costError) == costError.Path[Len(costError.Path) - 1].index

IsStrictPrefix(p, q) == Len(p) < Len(q) /\ SubSeq(q, 1, Len(p)) = p

\* the later path lies in the properties of an object in whose
\* additionalProperties subtree the earlier path lies
ValuesBeforeProperties(earlier, later) ==
    \E k \in 1..Len(earlier) :
        /\ k <= Len(later)
        /\ SubSeq(earlier, 1, k - 1) = SubSeq(later, 1, k - 1)
        /\ earlier[k] = NameSeg("additionalProperties")
        /\ later[k] = NameSeg("properties")

\* C24: the CostErrors are at any time in traversal order: those of one node
\* in increasing rule index, those of a node before those of its
\* descendants, and under one object those of its properties before those
\* of its additionalProperties subtree. The index of a CostError is the
\* position of its rule in the rule list of the node: its cost is that of
\* the rule at that position.
C24_CostErrorsInTraversalOrder ==
    /\ \A i, j \in DOMAIN costErrors :
          i < j =>
              LET earlier == NodePathOf(costErrors[i])
                  later == NodePathOf(costErrors[j])
              IN  /\ earlier = later => RuleIndexOf(costErrors[i]) < RuleIndexOf(costErrors[j])
                  /\ ~IsStrictPrefix(later, earlier)
                  /\ ~ValuesBeforeProperties(earlier, later)
    /\ \A i \in DOMAIN costErrors :
          LET rule == RuleOf(costErrors[i])
          IN  /\ rule # nil
              /\ costErrors[i].Cost
                     = EffectiveCost(Deref(rule), AncestorsAt(NodePathOf(costErrors[i])))

\* CheckExprCost returned seven findings for an array of objects with a
\* property and a value schema: one for the array, then rules 0 and 1 of the
\* object, of its property and of its value schema, in this order
C24_Witness ==
    /\ cstate = "returned"
    /\ Len(costErrors) = 7
    /\ LET root == NewPath(<< "spec", "validation", "openAPIV3Schema" >>)
           items == Child(root, "items")
           other == Key(Child(items, "properties"), "other")
           values == Child(items, "additionalProperties")
       IN  /\ [i \in 1..7 |-> NodePathOf(costErrors[i])]
                  = << root, items, items, other, other, values, values >>
           /\ [i \in 1..7 |-> RuleIndexOf(costErrors[i])] = << 0, 0, 1, 0, 1, 0, 1 >>

\* ------------------------------------------------------------------------
\* C25
\* ------------------------------------------------------------------------

\* the nodes passed on the way from s along the rest of a path of
\* checkExprCost, each with its path in CheckMaxLimits, the node at the end
\* left out
RECURSIVE LimitAncestorsAlong(_, _, _)
LimitAncestorsAlong(s, limitPath, rest) ==
    LET here == << [node |-> s, limitPath |-> limitPath] >>
    IN  IF rest = <<>>
        THEN <<>>
        ELSE IF Head(rest) = NameSeg("items")
             THEN here \o LimitAncestorsAlong(Deref(s.Items), Child(limitPath, "<items>"),
                                              Tail(rest))
             ELSE IF Head(rest) = NameSeg("additionalProperties")
                  THEN here \o LimitAncestorsAlong(
                                   Deref(Deref(s.AdditionalProperties).Structural),
                                   limitPath, Tail(rest))
                  ELSE here \o LimitAncestorsAlong(s.Properties[rest[2].name],
                                                   Child(limitPath, rest[2].name),
                                                   Tail(Tail(rest)))

\* CheckMaxLimits reported the array without maxItems or the map without
\* maxProperties
ReportedUnbounded(ancestor) ==
    \E i \in DOMAIN limitErrors :
        /\ limitErrors[i].Path = ancestor.limitPath
        /\ \/ ancestor.node.Type = "array" /\ limitErrors[i].Type = SchemaTypeList
           \/ ancestor.node.Type = "object" /\ limitErrors[i].Type = SchemaTypeMap

\* C25: once CheckMaxLimits has returned, every call of checkExprCost that is
\* handed the unbounded cardinality is for a node with an ancestor that
\* CheckMaxLimits reported as a list or a map without bound, objects with
\* additionalProperties but no value schema included.
C25_UnboundedImpliesLimitFinding ==
    lstate = "returned" =>
        \A call \in CostCalls :
            (call.schema # nil /\ call.nodeCostInfo.MaxCardinality = unbounded) =>
                LET ancestors == LimitAncestorsAlong(schema, NewPath(<< "openAPIV3Schema" >>),
                                                     SubSeq(call.path, 4, Len(call.path)))
                IN  \E k \in DOMAIN ancestors : ReportedUnbounded(ancestors[k])

\* ------------------------------------------------------------------------
\* C26
\* ------------------------------------------------------------------------

\* the path of the parent of the node at a path of checkExprCost below the
\* root
ParentPath(costPath) ==
    IF costPath[Len(costPath)].kind = "key"
    THEN SubSeq(costPath, 1, Len(costPath) - 2)
    ELSE SubSeq(costPath, 1, Len(costPath) - 1)

\* an object with properties and with a value schema for its additional
\* properties
HasPropertiesAndValues(s) ==
    /\ s.Type = "object"
    /\ DOMAIN s.Properties # {}
    /\ s.AdditionalProperties # nil
    /\ Deref(s.AdditionalProperties).Structural # nil

\* C26: the calls of checkExprCost for the children of one node are all
\* handed the same cardinality; for the children of an object that has both
\* properties and a value schema, the properties as much as the value
\* schema, it is the cardinality handed to the object times its
\* maxProperties, saturated, and unbounded if maxProperties is not declared.
C26_ChildrenShareCardinality ==
    \A call \in CostCalls :
        (call.schema # nil /\ Len(call.path) > 3) =>
            LET ancestors == AncestorsAt(call.path)
                parent == ancestors[Len(ancestors)]
                incoming == CardinalityBelow(SubSeq(ancestors, 1, Len(ancestors) - 1))
            IN  /\ \A sibling \in CostCalls :
                      (Len(sibling.path) > 3 /\ ParentPath(sibling.path) = ParentPath(call.path))
                          => sibling.nodeCostInfo = call.nodeCostInfo
                /\ HasPropertiesAndValues(parent) =>
                      call.nodeCostInfo.MaxCardinality =
                          IF Declared(parent, "MaxProperties") /\ incoming # unbounded
                          THEN Ptr(SaturatedProduct(
                                   Deref(incoming),
                                   zeroIfNegative(Deref(Deref(parent.ValueValidation).MaxProperties))))
                          ELSE unbounded

\* the property of a root object with maxProperties 2 and a value schema
\* was checked with the cardinality 2, and the call for the value schema is
\* pending with the cardinality 2
C26_Witness ==
    /\ HasPropertiesAndValues(schema)
    /\ FanOutAsDeclared(schema) = Ptr(2)
    /\ costCall # nil
    /\ Deref(costCall).path
           = Key(Child(NewPath(<< "spec", "validation", "openAPIV3Schema" >>), "properties"),
                 "other")
    /\ Deref(costCall).nodeCostInfo.MaxCardinality = Ptr(2)
    /\ costStack # <<>>
    /\ Head(costStack).path
           = Child(NewPath(<< "spec", "validation", "openAPIV3Schema" >>), "additionalProperties")
    /\ Head(costStack).nodeCostInfo.MaxCardinality = Ptr(2)

\* ------------------------------------------------------------------------
\* C27
\* ------------------------------------------------------------------------

\* every ancestor that is an array or an object with additionalProperties
\* declares its bound, and one of these bounds is 0 or negative
HasZeroBoundAbove(ancestors) ==
    /\ \A k \in DOMAIN ancestors : FanOutAsDeclared(ancestors[k]) # unbounded
    /\ \E k \in DOMAIN ancestors : Deref(FanOutAsDeclared(ancestors[k])) <= 0

\* C27: a negative maxItems or maxProperties counts as the fan-out factor 0:
\* extractMaxElements answers 0 for it. A call of checkExprCost for a node all
\* of whose array and map ancestors declare a bound, one of them 0 or
\* negative, is handed the cardinality 0; each of its rules has the effective
\* cost 0, and no CostError is ever about that node.
C27_ZeroBoundSilences ==
    \A call \in CostCalls :
        call.schema # nil =>
            LET ancestors == AncestorsAt(call.path)
            IN  /\ \A k \in DOMAIN ancestors :
                      (FanOutAsDeclared(ancestors[k]) # unbounded
                       /\ Deref(FanOutAsDeclared(ancestors[k])) < 0)
                          => extractMaxElements(ancestors[k]) = uint64ptr(0)
                /\ HasZeroBoundAbove(ancestors) =>
                      /\ call.nodeCostInfo.MaxCardinality = uint64ptr(0)
                      /\ (costCall = Ptr(call) /\ Deref(call.schema).CompileErr = nil) =>
                            /\ Len(exprCosts) = Len(Deref(call.schema).XValidations)
                            /\ \A i \in DOMAIN exprCosts : exprCosts[i] = 0
                      /\ \A i \in DOMAIN costErrors : NodePathOf(costErrors[i]) # call.path

\* a node below a map with maxProperties -1 and an array with maxItems
\* MaxInt64 was checked: its rules of cost MaxUint and 3 have the cost 0, and
\* the one CostError is that of the root
C27_Witness ==
    /\ costCall # nil
    /\ LET ancestors == AncestorsAt(Deref(costCall).path)
       IN  /\ Len(ancestors) = 2
           /\ FanOutAsDeclared(ancestors[1]) = Ptr(-1)
           /\ FanOutAsDeclared(ancestors[2]) = Ptr(MaxInt64)
    /\ Deref(Deref(costCall).schema).XValidations
           = << CompilationResult(nil, MaxUint, 0), CompilationResult(nil, 3, 5) >>
    /\ exprCosts = << 0, 0 >>
    /\ Len(costErrors) = 1
    /\ NodePathOf(costErrors[1]) = NewPath(<< "spec", "validation", "openAPIV3Schema" >>)

\* ------------------------------------------------------------------------
\* C28
\* ------------------------------------------------------------------------

\* the declared bounds of the ancestors in a chain, from the root down
RECURSIVE BoundsOfChain(_)
BoundsOfChain(s) ==
    IF s.Type = "array"
    THEN << Deref(Deref(s.ValueValidation).MaxItems) >> \o BoundsOfChain(Deref(s.Items))
    ELSE IF s.Type = "object"
         THEN << Deref(Deref(s.ValueValidation).MaxProperties) >>
                  \o BoundsOfChain(Deref(Deref(s.AdditionalProperties).Structural))
         ELSE <<>>

\* C28: of two chains whose ancestors all declare their bound and that
\* differ only in that one bound is lower in the second, with the same rules
\* and the same answers of the compiler, no rule of any node has a greater
\* effective cost in the second chain than in the first, whether or not the
\* products saturate at MaxUint on the way, and every CostError returned for
\* the second chain has one for the same rule returned for the first.
C28_MonotoneInBounds ==
    result # nil =>
        LET higher == Deref(result)[1]
            lower == Deref(result)[2]
        IN  /\ Len(lower.exprCosts) = Len(higher.exprCosts)
            /\ \A n \in DOMAIN lower.exprCosts :
                  /\ Len(lower.exprCosts[n]) = Len(higher.exprCosts[n])
                  /\ \A i \in DOMAIN lower.exprCosts[n] :
                        lower.exprCosts[n][i] <= higher.exprCosts[n][i]
            /\ \A i \in DOMAIN lower.costErrors :
                  \E j \in DOMAIN higher.costErrors :
                      higher.costErrors[j].Path = lower.costErrors[i].Path
            /\ Len(lower.costErrors) <= Len(higher.costErrors)

\* the first two bounds of the chain are MaxInt64, so that their product
\* saturates, and the first is lowered to 1: rule 1, of cost 1, of the node
\* below them falls from the cost MaxUint to MaxInt64, and the second chain
\* has fewer CostErrors
C28_Witness ==
    /\ result # nil
    /\ MaxInt64 * MaxInt64 > MaxUint
    /\ SubSeq(BoundsOfChain(args[1]), 1, 2) = << MaxInt64, MaxInt64 >>
    /\ SubSeq(BoundsOfChain(args[2]), 1, 2) = << 1, MaxInt64 >>
    /\ Deref(result)[1].exprCosts[3][2] = MaxUint
    /\ Deref(result)[2].exprCosts[3][2] = MaxInt64
    /\ Len(Deref(result)[2].costErrors) < Len(Deref(result)[1].costErrors)

\* ------------------------------------------------------------------------
\* C29
\* ------------------------------------------------------------------------

\* C29: the command runs both linters on every schema and exits with 1 or 0
\* by their findings. Once CheckMaxLimits has returned, whatever it found,
\* CheckExprCost is called next; once both have returned the command exits;
\* it never exits before both have returned; and its exit status is 0 when
\* the LimitErrors, the CostErrors and the compile errors are all empty and
\* 1 otherwise.
C29_RunsBothAndExitsByFindings ==
    /\ (lstate = "returned" /\ cstate = "idle") => ENABLED CallCheckExprCost
    /\ (lstate = "returned" /\ cstate = "returned" /\ exitStatus = nil) => ENABLED MainExit
    /\ exitStatus # nil =>
          /\ lstate = "returned"
          /\ cstate = "returned"
          /\ Deref(exitStatus) =
                 IF limitErrors = <<>> /\ costErrors = <<>> /\ compileErrors = <<>>
                 THEN 0
                 ELSE 1

\* ------------------------------------------------------------------------
\* C30
\* ------------------------------------------------------------------------

\* C30: MultiplyByElementCost called with a nil schema returns, for every
\* incoming cardinality, a number or unbounded, the unbounded cardinality:
\* the call is always possible and its result is unbounded.
C30_NilSchemaGivesUnbounded ==
    args[2] = nil =>
        /\ result = nil => ENABLED CallMultiplyByElementCost
        /\ result # nil => Deref(result) = costInfo(unbounded)

\* the call with a nil schema and the incoming cardinality 0 returned
\* unbounded
C30_Witness ==
    /\ args[2] = nil
    /\ args[1] = costInfo(uint64ptr(0))
    /\ result # nil
    /\ Deref(result).MaxCardinality = unbounded

====
